---- MODULE Spec2Model ----
(***************************************************************************)
(* rust_api_hub: the in-memory task repository (a HashMap behind a         *)
(* parking_lot RwLock) and the HTTP handlers that call it, as a state      *)
(* machine of concurrent callers.                                          *)
(***************************************************************************)
EXTENDS Integers, Sequences, FiniteSets, TLC

\* ------------------------------------------------------------------ bounds
\* concurrent callers of the concurrent workload
NumThreads == 2
\* identifiers Uuid::new_v4 can hand out
NumIds == 2
\* largest reading of the clock
MaxClock == 2
\* requests served in one run
MaxCalls == 3
\* longest identifier list of a bulk delete
MaxBulk == 2
\* most rows of an import payload
MaxRows == 2
\* most entries of a tag list
MaxTags == 2
\* most records of a snapshot that is listed
MaxPageRecords == 3
\* most records of a snapshot that is summarised
MaxStatRecords == 4

\* ------------------------------------------------------- program constants
\* validate_tags: `t.len() > 64`
MaxTagLen == 64
\* get_tasks: `params.per_page.unwrap_or(20)`
DefaultPerPage == 20
\* get_tasks: `let per_page_cap = 100usize`
PerPageCap == 100
\* get_stats: `.take(10)`
TopN == 10
\* import_tasks_file: `const MAX_BYTES: usize = 5 * 1024 * 1024`
MaxBytes == 5242880

\* ------------------------------------------------------------------ strings
\* A string is a sequence of runs [c |-> character, n |-> repetitions >= 1],
\* no two adjacent runs of the same character.  "Idot" is U+0130 and "cdot"
\* U+0307, the one character whose lowercase form is two characters.
\* The characters, in the order of their code points (which is the order of
\* their UTF-8 encodings).
CodeOrder ==
    <<" ", "A", "B", "G", "H", "I", "L", "a", "b", "c", "d", "e", "f", "g", "h", "i",
      "j", "k", "l", "m", "o", "r", "t", "u", "w", "Idot", "cdot">>

Chars == {CodeOrder[k] : k \in DOMAIN CodeOrder}

\* UTF-8 width of a character in bytes
Width(c) == IF c \in {"Idot", "cdot"} THEN 2 ELSE 1

IsWhite(c) == c = " "

Run(c, n) == [c |-> c, n |-> n]

Rep(c, n) == IF n = 0 THEN <<>> ELSE <<Run(c, n)>>

\* str::len: the length in bytes, counted as the byte positions of every run
ByteLen(s) ==
    Cardinality(UNION {{<<k, j>> : j \in 1 .. s[k].n * Width(s[k].c)} : k \in DOMAIN s})

\* the length in characters
CharLen(s) == Cardinality(UNION {{<<k, j>> : j \in 1 .. s[k].n} : k \in DOMAIN s})

\* the i-th character of s, 1 <= i <= CharLen(s)
CharAt(s, i) ==
    LET k == CHOOSE k \in DOMAIN s :
                 /\ CharLen(SubSeq(s, 1, k - 1)) < i
                 /\ i <= CharLen(SubSeq(s, 1, k))
    IN  s[k].c

RECURSIVE TrimStart(_)
TrimStart(s) == IF s # <<>> /\ IsWhite(Head(s).c) THEN TrimStart(Tail(s)) ELSE s

RECURSIVE TrimEnd(_)
TrimEnd(s) ==
    IF s # <<>> /\ IsWhite(s[Len(s)].c) THEN TrimEnd(SubSeq(s, 1, Len(s) - 1)) ELSE s

\* str::trim
Trim(s) == TrimEnd(TrimStart(s))

\* char::to_lowercase
LowerChar(c) ==
    CASE c = "A" -> <<"a">>
      [] c = "B" -> <<"b">>
      [] c = "G" -> <<"g">>
      [] c = "H" -> <<"h">>
      [] c = "I" -> <<"i">>
      [] c = "L" -> <<"l">>
      [] c = "Idot" -> <<"i", "cdot">>
      [] OTHER -> <<c>>

\* n copies of the two different characters cs
Alternate(cs, n) == [k \in 1 .. 2 * n |-> Run(cs[IF k % 2 = 1 THEN 1 ELSE 2], 1)]

\* n copies of the characters cs
LowerRun(cs, n) == IF Len(cs) = 1 THEN <<Run(cs[1], n)>> ELSE Alternate(cs, n)

\* a followed by b, the last run of a merged with the first of b when they agree
Join(a, b) ==
    IF a = <<>> THEN b
    ELSE IF b = <<>> THEN a
    ELSE IF a[Len(a)].c = b[1].c
         THEN [a EXCEPT ![Len(a)].n = @ + b[1].n] \o Tail(b)
         ELSE a \o b

\* str::to_lowercase: every character replaced by its lowercase form, in order
RECURSIVE ToLower(_)
ToLower(s) ==
    IF s = <<>> THEN <<>>
    ELSE IF Len(s) = 1 THEN LowerRun(LowerChar(s[1].c), s[1].n)
    ELSE LET h == Len(s) \div 2
         IN  Join(ToLower(SubSeq(s, 1, h)), ToLower(SubSeq(s, h + 1, Len(s))))

\* str::is_empty
IsEmpty(s) == s = <<>>

\* the place of a character in the order of code points
Rank(c) == CHOOSE k \in DOMAIN CodeOrder : CodeOrder[k] = c

\* `x.cmp(&y) == Ordering::Less` on strings: the first character that differs
\* decides, and a proper prefix comes first
StrLess(x, y) ==
    \E k \in 1 .. CharLen(x) + 1 :
        /\ \A i \in 1 .. k - 1 : i <= CharLen(y) /\ CharAt(x, i) = CharAt(y, i)
        /\ \/ k = CharLen(x) + 1 /\ k <= CharLen(y)
           \/ /\ k <= CharLen(x) /\ k <= CharLen(y)
              /\ Rank(CharAt(x, k)) < Rank(CharAt(y, k))

\* a one-character string
S(c) == <<Run(c, 1)>>

\* the string of the characters cs, no character twice in a row
Str(cs) == [k \in DOMAIN cs |-> Run(cs[k], 1)]

\* ------------------------------------------------------------------ options
None == <<>>
Some(x) == <<x>>
IsSome(o) == o # <<>>
Unwrap(o) == o[1]

\* -------------------------------------------------------------------- Task
\* Priority::default
DefaultPriority == "medium"

\* the variants of Priority
Levels == {"low", "medium", "high", "critical"}

\* the string each arm of Priority::parse matches
LevelName(p) ==
    CASE p = "low" -> Str(<<"l", "o", "w">>)
      [] p = "medium" -> Str(<<"m", "e", "d", "i", "u", "m">>)
      [] p = "high" -> Str(<<"h", "i", "g", "h">>)
      [] p = "critical" -> Str(<<"c", "r", "i", "t", "i", "c", "a", "l">>)

\* Priority::parse matching on `s.trim()` without `to_lowercase`
PriorityParseCased(s) ==
    LET hit == {p \in Levels : Trim(s) = LevelName(p)}
    IN  IF hit = {} THEN None ELSE Some(CHOOSE p \in hit : TRUE)

\* Priority::parse: Ok(level) as Some(level), Err(_) as None
PriorityParse(s) ==
    LET hit == {p \in Levels : ToLower(Trim(s)) = LevelName(p)}
    IN  IF hit = {} THEN None ELSE Some(CHOOSE p \in hit : TRUE)

\* TaskCreate::validate testing `self.title.is_empty()` without `trim`
ValidateUntrimmed(dto) == IF IsEmpty(dto.title) THEN "title must not be empty" ELSE "ok"

\* TaskCreate::validate
Validate(dto) == IF IsEmpty(Trim(dto.title)) THEN "title must not be empty" ELSE "ok"

\* Task::new_full, with the identifier Uuid::new_v4 returned and the reading
\* of Utc::now
NewFull(id, title, description, t) ==
    [id |-> id, title |-> title, description |-> description, completed |-> FALSE,
     created_at |-> t, updated_at |-> t, tags |-> <<>>, priority |-> DefaultPriority]

\* apply_update with `upd.completed.unwrap_or(false)` for the flag
ApplyFieldsDefaulted(task, upd) ==
    [task EXCEPT
        !.title = IF IsSome(upd.title) THEN Unwrap(upd.title) ELSE @,
        !.description = IF IsSome(upd.description) THEN Unwrap(upd.description) ELSE @,
        !.completed = IF IsSome(upd.completed) THEN Unwrap(upd.completed) ELSE FALSE]

\* Task::apply_update, the three `if let Some` assignments
ApplyFields(task, upd) ==
    [task EXCEPT
        !.title = IF IsSome(upd.title) THEN Unwrap(upd.title) ELSE @,
        !.description = IF IsSome(upd.description) THEN Unwrap(upd.description) ELSE @,
        !.completed = IF IsSome(upd.completed) THEN Unwrap(upd.completed) ELSE @]

\* apply_update stamping created_at in place of updated_at
ApplyStampCreated(task, t) == [task EXCEPT !.created_at = t]

\* Task::apply_update, `self.updated_at = Utc::now()`
ApplyStamp(task, t) == [task EXCEPT !.updated_at = t]

\* the TaskUpdate set_tags passes to repo.update
NoFields == [title |-> None, description |-> None, completed |-> None]

\* an identifier generator that can repeat itself
NewV4Repeating(used) == 1 .. NumIds

\* Uuid::new_v4: an identifier no earlier call returned
NewV4(used) == (1 .. NumIds) \ used

\* Uuid::parse_str on a path segment: 0 stands for a malformed string
ParseStr(s) == IF s \in 1 .. NumIds THEN Some(s) ELSE None

\* -------------------------------------------------------------- repository
\* HashMap::insert under TaskRepository::insert
RepoInsert(m, task) ==
    [i \in DOMAIN m \cup {task.id} |-> IF i = task.id THEN task ELSE m[i]]

\* TaskRepository::get
RepoGet(m, id) == IF id \in DOMAIN m THEN Some(m[id]) ELSE None

\* TaskRepository::list (the order of a HashMap's values is unspecified)
RepoList(m) == {m[i] : i \in DOMAIN m}

\* HashMap::remove under TaskRepository::remove
RepoRemove(m, id) == [i \in DOMAIN m \ {id} |-> m[i]]

\* TaskRepository::count
RepoCount(m) == Cardinality(DOMAIN m)

\* --------------------------------------------------------------------- tags
\* validate_tags returning after it looked at the first entry only
ValidateTagsHead(tags) ==
    IF tags = <<>> THEN "ok"
    ELSE IF IsEmpty(Trim(Head(tags))) THEN "tags must not contain empty entries"
    ELSE IF ByteLen(Head(tags)) > MaxTagLen THEN "tag too long (max 64 chars)"
    ELSE "ok"

\* validate_tags: the first offending entry decides the error
RECURSIVE ValidateTags(_)
ValidateTags(tags) ==
    IF tags = <<>> THEN "ok"
    ELSE IF IsEmpty(Trim(Head(tags))) THEN "tags must not contain empty entries"
    ELSE IF ByteLen(Head(tags)) > MaxTagLen THEN "tag too long (max 64 chars)"
    ELSE ValidateTags(Tail(tags))

\* normalize_tags remembering the trimmed entry in `seen`, not the lowercased one
RECURSIVE NormalizeFromSeenCased(_, _)
NormalizeFromSeenCased(out, tags) ==
    IF tags = <<>> THEN out
    ELSE LET norm == Trim(Head(tags))
         IN  IF ~IsEmpty(norm) /\ norm \notin {out[k] : k \in DOMAIN out}
             THEN NormalizeFromSeenCased(Append(out, ToLower(norm)), Tail(tags))
             ELSE NormalizeFromSeenCased(out, Tail(tags))

\* normalize_tags without `to_lowercase`
RECURSIVE NormalizeFromCased(_, _)
NormalizeFromCased(out, tags) ==
    IF tags = <<>> THEN out
    ELSE LET norm == Trim(Head(tags))
         IN  IF ~IsEmpty(norm) /\ norm \notin {out[k] : k \in DOMAIN out}
             THEN NormalizeFromCased(Append(out, norm), Tail(tags))
             ELSE NormalizeFromCased(out, Tail(tags))

\* normalize_tags: `out` after the loop went over `tags`
RECURSIVE NormalizeFrom(_, _)
NormalizeFrom(out, tags) ==
    IF tags = <<>> THEN out
    ELSE LET norm == ToLower(Trim(Head(tags)))
         IN  IF ~IsEmpty(norm) /\ norm \notin {out[k] : k \in DOMAIN out}
             THEN NormalizeFrom(Append(out, norm), Tail(tags))
             ELSE NormalizeFrom(out, Tail(tags))

NormalizeTags(tags) == NormalizeFrom(<<>>, tags)

\* str::eq_ignore_ascii_case: only A-Z fold
AsciiLowerChar(c) == IF c = "A" THEN "a" ELSE IF c = "B" THEN "b" ELSE c

EqIgnoreAsciiCase(x, y) ==
    /\ CharLen(x) = CharLen(y)
    /\ \A i \in 1 .. CharLen(x) : AsciiLowerChar(CharAt(x, i)) = AsciiLowerChar(CharAt(y, i))

Threads == 1 .. NumThreads
Ids == 1 .. NumIds
\* path segments: an identifier in canonical form, or 0 for "not-a-uuid"
IdStrings == 0 .. NumIds

\* ---------------------------------------------------------------- variables
VARIABLES
    wl,       \* the workload: which callers there are and what they send
    calls,    \* requests accepted so far
    now,      \* the reading Utc::now() returns
    store,    \* TaskRepository.inner: the HashMap<Uuid, Task>
    lockW,    \* the thread holding the RwLock's write guard, 0 for none
    lockR,    \* the threads holding a read guard
    queue,    \* the threads parked on the RwLock, in arrival order
    pc,       \* each thread's position in its handler
    req,      \* the request each thread is serving
    loc,      \* the handler's local Task (`task` of create_task, `t` of set_tags)
    res,      \* the response a handler returned
    issued,   \* the identifiers Uuid::new_v4 has returned
    born,     \* history: identifier -> created_at of every Task::new_full
    removed,  \* history: identifiers a remove or remove_many took out
    returned, \* history: identifiers create_task responses carried
    torn,     \* history: a read guard saw a record apply_update had half written
    t0,       \* history: the clock when the set_tags being served was called
    absent    \* history: no record under the request's id since the call began

lockVars == <<lockW, lockR, queue>>
threadVars == <<pc, req, loc, res>>
histVars == <<born, removed, returned, torn, t0, absent>>
vars == <<wl, calls, now, store, issued, lockVars, threadVars, histVars>>

Idle == [op |-> "none"]

\* ------------------------------------------------------------------- inputs
\* "race": concurrent callers; "live": concurrent callers that send one
\* request of each kind; "fields" and "tags": one caller that sends every
\* title, description and update, or every tag list; "page" and "stats": one
\* caller that lists or summarises a given store; "prio": one caller that
\* creates records, sets and reads priorities; "upload": one caller that
\* imports through each of the three import handlers
Workloads == {"race", "live", "fields", "tags", "page", "prio", "stats", "upload"}

\* the threads that serve requests
Callers == IF wl \in {"race", "live"} THEN Threads ELSE {1}

Titles ==
    IF wl = "fields"
    THEN {<<>>, S(" "), S("t"), <<Run(" ", 1), Run("t", 1), Run(" ", 2)>>}
    ELSE IF wl = "live" THEN {S("t")}
    ELSE {S(" "), S("t")}

Descs == IF wl = "fields" THEN {S("d"), S("e")} ELSE {S("d")}

Updates ==
    IF wl = "fields"
    THEN [title : {None, Some(S("a")), Some(<<>>)}, description : {None, Some(S("e"))},
          completed : {None, Some(TRUE), Some(FALSE)}]
    ELSE IF wl = "live"
    THEN {[title |-> Some(S("a")), description |-> None, completed |-> Some(TRUE)]}
    ELSE {[title |-> None, description |-> None, completed |-> None],
          [title |-> Some(S("a")), description |-> None, completed |-> Some(TRUE)]}

\* single tags a PUT /tasks/{id}/tags body can carry
RawTags ==
    {<<>>, S(" "), S("a"), S("A"), <<Run(" ", 1), Run("B", 1), Run(" ", 1)>>,
     Rep("a", MaxTagLen), Rep("A", MaxTagLen + 1), <<Run(" ", 1), Run("a", MaxTagLen)>>,
     Rep("Idot", MaxTagLen \div 2), Rep("Idot", MaxTagLen \div 2 + 1)}

\* request bodies of PUT /tasks/{id}/tags
TagLists ==
    IF wl = "tags" THEN UNION {[1 .. n -> RawTags] : n \in 0 .. MaxTags}
    ELSE IF wl = "live" THEN {<<S("A")>>}
    ELSE {<<S("A")>>, <<S("b"), S(" ")>>}

InitVars ==
    /\ calls = 0
    /\ now = 0
    /\ store = [i \in {} |-> 0]
    /\ lockW = 0
    /\ lockR = {}
    /\ queue = <<>>
    /\ pc = [t \in Threads |-> "idle"]
    /\ req = [t \in Threads |-> Idle]
    /\ loc = [t \in Threads |-> None]
    /\ res = [t \in Threads |-> None]
    /\ issued = {}
    /\ born = [i \in {} |-> 0]
    /\ removed = {}
    /\ returned = {}
    /\ torn = FALSE
    /\ t0 = [t \in Threads |-> 0]
    /\ absent = [t \in Threads |-> FALSE]

\* concurrent callers
Init == wl = "race" /\ InitVars

\* one caller that creates records, sets and reads priorities
PrioInit == wl = "prio" /\ InitVars

\* concurrent callers, one request of each kind
LiveInit == wl = "live" /\ InitVars

\* one caller, every title, description and update
FieldsInit == wl = "fields" /\ InitVars

\* one caller, every tag list
TagsInit == wl = "tags" /\ InitVars

\* one caller, every import payload
UploadInit == wl = "upload" /\ InitVars

\* the records create_task and update_task can have left under the
\* identifiers 1 .. n, with the priorities a set_priority can have given them
Snapshots(n, completions, priorities) ==
    [1 .. n -> [created_at : 0 .. MaxClock, completed : completions, priority : priorities]]

\* the store that holds the records r
StoreOf(r) ==
    [i \in DOMAIN r |->
        [NewFull(i, S("t"), S("d"), r[i].created_at) EXCEPT
            !.completed = r[i].completed, !.priority = r[i].priority]]

\* the variables after the requests that built the store m were served
Serving(m) ==
    /\ calls = 0
    /\ store = m
    /\ now \in 0 .. MaxClock
    /\ \A i \in DOMAIN m : m[i].created_at <= now
    /\ DOMAIN m = {} \/ \E i \in DOMAIN m : m[i].created_at = now
    /\ lockW = 0
    /\ lockR = {}
    /\ queue = <<>>
    /\ pc = [t \in Threads |-> "idle"]
    /\ req = [t \in Threads |-> Idle]
    /\ loc = [t \in Threads |-> None]
    /\ res = [t \in Threads |-> None]
    /\ issued = DOMAIN m
    /\ born = [i \in DOMAIN m |-> m[i].created_at]
    /\ removed = {}
    /\ returned = DOMAIN m
    /\ torn = FALSE
    /\ t0 = [t \in Threads |-> 0]
    /\ absent = [t \in Threads |-> FALSE]

\* one caller that lists a store of up to MaxPageRecords records with every
\* query string; the stores of fewer records also vary the priorities
PageInit ==
    /\ wl = "page"
    /\ \E n \in 0 .. MaxPageRecords :
        \E r \in Snapshots(n, BOOLEAN,
                            IF n < MaxPageRecords THEN {"medium", "high"} ELSE {"medium"}) :
            Serving(StoreOf(r))

\* eleven tags, one more than get_stats lists
ManyTags ==
    <<S("a"), S("b"), S("c"), S("d"), S("e"), S("f"), S("g"), S("h"), S("i"), S("j"),
      S("k")>>

\* the tag lists set_tags can have stored
StatTagLists ==
    {<<>>, <<S("a")>>, <<S("a"), S("b")>>, <<S("a"), S("c")>>, <<S("b"), S("c")>>,
     ManyTags, <<S("k"), Str(<<"a", "b">>)>>}

\* the records create_task, update_task and set_tags can have left under the
\* identifiers 1 .. n; the larger snapshots vary the tags only
StatSnapshots(n) ==
    [1 .. n -> [created_at : IF n <= 2 THEN 0 .. MaxClock ELSE {0},
                completed : IF n <= 3 THEN BOOLEAN ELSE {FALSE},
                tags : StatTagLists]]

\* the store that holds the tagged records r
StatStoreOf(r) ==
    [i \in DOMAIN r |->
        [NewFull(i, S("t"), S("d"), r[i].created_at) EXCEPT
            !.completed = r[i].completed, !.tags = r[i].tags]]

\* one caller that asks for the statistics of a store of up to
\* MaxStatRecords records
StatsInit ==
    /\ wl = "stats"
    /\ \E n \in 0 .. MaxStatRecords : \E r \in StatSnapshots(n) : Serving(StatStoreOf(r))

\* `born` after Task::new_full built the tasks ts at clock reading t
BornAfter(ts, t) ==
    [i \in DOMAIN born \cup {ts[k].id : k \in DOMAIN ts} |->
        IF i \in DOMAIN born THEN born[i] ELSE t]

\* ------------------------------------------------------------------ RwLock
\* a read lock that does not wait for the writer
CanReadAlways(w, r) == TRUE

\* RwLock::read is granted while no write guard is held
CanRead(w, r) == w = 0

\* RwLock::write granted while read guards are held
CanWriteAmongReaders(w, r) == w = 0

\* RwLock::write is granted while no guard at all is held
CanWrite(w, r) == w = 0 /\ r = {}

ReadWaits ==
    {"get_wait", "tags_wait", "count_wait", "search_wait", "st_get_wait", "list_wait",
     "sp_get_wait", "gp_wait", "stats_wait"}
WriteWaits ==
    {"create_wait", "update_wait", "delete_wait", "bulk_wait", "import_wait",
     "st_upd_wait", "st_ins_wait", "sp_ins_wait", "icsv_wait", "ifile_wait"}

\* the position inside the guard's scope that follows each wait
CsOf ==
    [get_wait |-> "get_cs", tags_wait |-> "tags_cs", count_wait |-> "count_cs",
     search_wait |-> "search_cs", st_get_wait |-> "st_get_cs", list_wait |-> "list_cs",
     create_wait |-> "create_cs", update_wait |-> "update_cs",
     delete_wait |-> "delete_cs", bulk_wait |-> "bulk_cs",
     import_wait |-> "import_cs", st_upd_wait |-> "st_upd_cs",
     st_ins_wait |-> "st_ins_cs", sp_get_wait |-> "sp_get_cs",
     gp_wait |-> "gp_cs", sp_ins_wait |-> "sp_ins_cs", stats_wait |-> "stats_cs",
     icsv_wait |-> "icsv_cs", ifile_wait |-> "ifile_cs"]

\* positions at which apply_update has assigned the fields but not updated_at
HalfWritten == {"update_stamp", "st_upd_stamp"}

\* the thread parks on the lock
Park(t, wait) ==
    /\ pc' = [pc EXCEPT ![t] = wait]
    /\ queue' = Append(queue, t)

\* `self.inner.read()` returns its guard
AcquireRead(t) ==
    /\ pc[t] \in ReadWaits
    /\ queue # <<>> /\ Head(queue) = t
    /\ CanRead(lockW, lockR)
    /\ lockR' = lockR \cup {t}
    /\ queue' = Tail(queue)
    /\ pc' = [pc EXCEPT ![t] = CsOf[pc[t]]]
    /\ UNCHANGED <<now, store, issued, lockW, req, loc, res, histVars>>

\* `self.inner.write()` returns its guard
AcquireWrite(t) ==
    /\ pc[t] \in WriteWaits
    /\ queue # <<>> /\ Head(queue) = t
    /\ CanWrite(lockW, lockR)
    /\ lockW' = t
    /\ queue' = Tail(queue)
    /\ pc' = [pc EXCEPT ![t] = CsOf[pc[t]]]
    /\ UNCHANGED <<now, store, issued, lockR, req, loc, res, histVars>>

\* the read guard is dropped at the end of the repository method
ReleaseRead(t) == lockR' = lockR \ {t} /\ UNCHANGED <<lockW, queue>>

\* a write guard that is never dropped
ReleaseWriteKept(t) == UNCHANGED <<lockW, lockR, queue>>

\* the write guard is dropped at the end of the repository method
ReleaseWrite(t) == lockW' = 0 /\ UNCHANGED <<lockR, queue>>

\* the handler returns the response r
Finish(t, r) ==
    /\ pc' = [pc EXCEPT ![t] = "done"]
    /\ res' = [res EXCEPT ![t] = Some(r)]

\* `absent` after the map became m
AbsentAfter(m) ==
    [u \in Threads |-> absent[u] /\ req[u].id \notin DOMAIN m]

\* `torn` after a read of the record under id
TornBy(id) == torn \/ \E u \in Threads : pc[u] \in HalfWritten /\ req[u].id = id

\* `torn` after a read of the whole map
TornByAny == torn \/ \E u \in Threads : pc[u] \in HalfWritten

\* a handler that takes {id} starts: the path is parsed, and a malformed one
\* is answered at once
BeginWithId(t, r, wait) ==
    /\ pc[t] = "idle"
    /\ req' = [req EXCEPT ![t] = r]
    /\ IF ParseStr(r.id) = None
       THEN /\ Finish(t, [status |-> 400, error |-> "invalid uuid"])
            /\ UNCHANGED <<queue, absent>>
       ELSE /\ Park(t, wait)
            /\ absent' = [absent EXCEPT ![t] = r.id \notin DOMAIN store]
            /\ UNCHANGED res
    /\ UNCHANGED <<now, store, issued, lockW, lockR, loc, born, removed, returned, torn, t0>>

\* Priority::sort_value
SortValue(p) ==
    CASE p = "low" -> 1 [] p = "medium" -> 2 [] p = "high" -> 3 [] p = "critical" -> 4

\* ------------------------------------------------------------- create_task
CreateBegin(t) ==
    /\ pc[t] = "idle"
    /\ \E title \in Titles, description \in Descs, id \in NewV4(issued) :
        /\ req' = [req EXCEPT ![t] =
                      [op |-> "create", title |-> title, description |-> description]]
        /\ loc' = [loc EXCEPT ![t] = Some(NewFull(id, title, description, now))]
        /\ issued' = issued \cup {id}
        /\ born' = BornAfter(<<NewFull(id, title, description, now)>>, now)
    /\ Park(t, "create_wait")
    /\ UNCHANGED <<now, store, lockW, lockR, res, removed, returned, torn, t0, absent>>

CreateInsert(t) ==
    /\ pc[t] = "create_cs"
    /\ store' = RepoInsert(store, Unwrap(loc[t]))
    /\ absent' = AbsentAfter(store')
    /\ ReleaseWrite(t)
    /\ Finish(t, [status |-> 201, task |-> Unwrap(loc[t])])
    /\ UNCHANGED <<now, issued, req, loc, born, removed, returned, torn, t0>>

\* ---------------------------------------------------------------- get_task
GetBegin(t) == \E s \in IdStrings : BeginWithId(t, [op |-> "get", id |-> s], "get_wait")

GetRead(t) ==
    /\ pc[t] = "get_cs"
    /\ LET found == RepoGet(store, req[t].id)
       IN  IF IsSome(found)
           THEN Finish(t, [status |-> 200, task |-> Unwrap(found)])
           ELSE Finish(t, [status |-> 404, error |-> "not found"])
    /\ torn' = TornBy(req[t].id)
    /\ ReleaseRead(t)
    /\ UNCHANGED <<now, store, issued, req, loc, born, removed, returned, t0, absent>>

\* ------------------------------------------------------------- update_task
UpdateBegin(t) ==
    \E s \in IdStrings, upd \in Updates :
        BeginWithId(t, [op |-> "update", id |-> s, upd |-> upd], "update_wait")

\* TaskRepository::update up to apply_update's field assignments
RepoUpdateFields(t, from, mid, upd) ==
    /\ pc[t] = from
    /\ req[t].id \in DOMAIN store
    /\ store' = [store EXCEPT ![req[t].id] = ApplyFields(@, upd)]
    /\ pc' = [pc EXCEPT ![t] = mid]
    /\ UNCHANGED <<now, issued, lockVars, req, loc, res, histVars>>

UpdateFields(t) == RepoUpdateFields(t, "update_cs", "update_stamp", req[t].upd)

\* update_task answering 200 for an identifier it did not find
UpdateMissingOk(t) ==
    /\ pc[t] = "update_cs"
    /\ req[t].id \notin DOMAIN store
    /\ ReleaseWrite(t)
    /\ Finish(t, [status |-> 200, error |-> "not found"])
    /\ UNCHANGED <<now, store, issued, req, loc, histVars>>

\* TaskRepository::update returned None
UpdateMissing(t) ==
    /\ pc[t] = "update_cs"
    /\ req[t].id \notin DOMAIN store
    /\ ReleaseWrite(t)
    /\ Finish(t, [status |-> 404, error |-> "not found"])
    /\ UNCHANGED <<now, store, issued, req, loc, histVars>>

UpdateStamp(t) ==
    /\ pc[t] = "update_stamp"
    /\ store' = [store EXCEPT ![req[t].id] = ApplyStamp(@, now)]
    /\ ReleaseWrite(t)
    /\ Finish(t, [status |-> 200, task |-> store'[req[t].id]])
    /\ UNCHANGED <<now, issued, req, loc, histVars>>

\* ------------------------------------------------------------- delete_task
DeleteBegin(t) ==
    \E s \in IdStrings : BeginWithId(t, [op |-> "delete", id |-> s], "delete_wait")

DeleteRemove(t) ==
    /\ pc[t] = "delete_cs"
    /\ store' = RepoRemove(store, req[t].id)
    /\ IF req[t].id \in DOMAIN store
       THEN /\ Finish(t, [status |-> 204])
            /\ removed' = removed \cup {req[t].id}
       ELSE /\ Finish(t, [status |-> 404, error |-> "not found"])
            /\ UNCHANGED removed
    /\ ReleaseWrite(t)
    /\ UNCHANGED <<now, issued, req, loc, born, returned, torn, t0, absent>>

\* ------------------------------------------------------------- count_tasks
CountBegin(t) ==
    /\ pc[t] = "idle"
    /\ req' = [req EXCEPT ![t] = [op |-> "count"]]
    /\ Park(t, "count_wait")
    /\ UNCHANGED <<now, store, issued, lockW, lockR, loc, res, histVars>>

CountRead(t) ==
    /\ pc[t] = "count_cs"
    /\ Finish(t, [status |-> 200, count |-> RepoCount(store)])
    /\ torn' = TornByAny
    /\ ReleaseRead(t)
    /\ UNCHANGED <<now, store, issued, req, loc, born, removed, returned, t0, absent>>

\* ---------------------------------------------------------------- get_tags
GetTagsBegin(t) ==
    \E s \in IdStrings : BeginWithId(t, [op |-> "get_tags", id |-> s], "tags_wait")

GetTagsRead(t) ==
    /\ pc[t] = "tags_cs"
    /\ LET found == RepoGet(store, req[t].id)
       IN  IF IsSome(found)
           THEN Finish(t, [status |-> 200, tags |-> Unwrap(found).tags])
           ELSE Finish(t, [status |-> 404, error |-> "not found"])
    /\ torn' = TornBy(req[t].id)
    /\ ReleaseRead(t)
    /\ UNCHANGED <<now, store, issued, req, loc, born, removed, returned, t0, absent>>

\* ---------------------------------------------------------------- set_tags
\* validate_tags, normalize_tags and Uuid::parse_str, in the handler's order
SetTagsBegin(t) ==
    /\ pc[t] = "idle"
    /\ \E s \in IdStrings, raw \in TagLists :
        /\ req' = [req EXCEPT ![t] =
                      [op |-> "set_tags", id |-> s, raw |-> raw,
                       tags |-> NormalizeTags(raw)]]
        /\ IF ValidateTags(raw) # "ok"
           THEN /\ Finish(t, [status |-> 400, error |-> ValidateTags(raw)])
                /\ UNCHANGED <<queue, t0>>
                /\ absent' = [absent EXCEPT ![t] =
                                 ParseStr(s) # None /\ s \notin DOMAIN store]
           ELSE IF ParseStr(s) = None
           THEN /\ Finish(t, [status |-> 400, error |-> "invalid uuid"])
                /\ UNCHANGED <<queue, t0, absent>>
           ELSE /\ Park(t, "st_get_wait")
                /\ t0' = [t0 EXCEPT ![t] = now]
                /\ absent' = [absent EXCEPT ![t] = s \notin DOMAIN store]
                /\ UNCHANGED res
    /\ UNCHANGED <<now, store, issued, lockW, lockR, loc, born, removed, returned, torn>>

\* `repo.get(&uuid)` and `t.tags = tags`
SetTagsGet(t) ==
    /\ pc[t] = "st_get_cs"
    /\ LET found == RepoGet(store, req[t].id)
       IN  IF IsSome(found)
           THEN /\ loc' = [loc EXCEPT ![t] =
                              Some([Unwrap(found) EXCEPT !.tags = req[t].tags])]
                /\ pc' = [pc EXCEPT ![t] = "st_upd_call"]
                /\ UNCHANGED res
           ELSE /\ Finish(t, [status |-> 404, error |-> "not found"])
                /\ UNCHANGED loc
    /\ torn' = TornBy(req[t].id)
    /\ ReleaseRead(t)
    /\ UNCHANGED <<now, store, issued, req, born, removed, returned, t0, absent>>

\* `repo.update(&uuid, TaskUpdate { None, None, None })` is called
SetTagsCallUpdate(t) ==
    /\ pc[t] = "st_upd_call"
    /\ Park(t, "st_upd_wait")
    /\ UNCHANGED <<now, store, issued, lockW, lockR, req, loc, res, histVars>>

SetTagsUpdateFields(t) == RepoUpdateFields(t, "st_upd_cs", "st_upd_stamp", NoFields)

\* repo.update found no record; its None is dropped by `let _ =`
SetTagsUpdateMissing(t) ==
    /\ pc[t] = "st_upd_cs"
    /\ req[t].id \notin DOMAIN store
    /\ ReleaseWrite(t)
    /\ pc' = [pc EXCEPT ![t] = "st_ins_call"]
    /\ UNCHANGED <<now, store, issued, req, loc, res, histVars>>

SetTagsUpdateStamp(t) ==
    /\ pc[t] = "st_upd_stamp"
    /\ store' = [store EXCEPT ![req[t].id] = ApplyStamp(@, now)]
    /\ ReleaseWrite(t)
    /\ pc' = [pc EXCEPT ![t] = "st_ins_call"]
    /\ UNCHANGED <<now, issued, req, loc, res, histVars>>

\* `repo.insert(t.clone())` is called
SetTagsCallInsert(t) ==
    /\ pc[t] = "st_ins_call"
    /\ Park(t, "st_ins_wait")
    /\ UNCHANGED <<now, store, issued, lockW, lockR, req, loc, res, histVars>>

SetTagsInsert(t) ==
    /\ pc[t] = "st_ins_cs"
    /\ store' = RepoInsert(store, Unwrap(loc[t]))
    /\ absent' = AbsentAfter(store')
    /\ ReleaseWrite(t)
    /\ Finish(t, [status |-> 200, task |-> Unwrap(loc[t])])
    /\ UNCHANGED <<now, issued, req, loc, born, removed, returned, torn, t0>>

\* -------------------------------------------------------- get_tasks_by_tag
SearchTags == IF wl = "tags" THEN {S("a"), S("B")} ELSE {S("a")}

SearchBegin(t) ==
    /\ pc[t] = "idle"
    /\ \E tag \in SearchTags : req' = [req EXCEPT ![t] = [op |-> "search", tag |-> tag]]
    /\ Park(t, "search_wait")
    /\ UNCHANGED <<now, store, issued, lockW, lockR, loc, res, histVars>>

\* `items.retain(|t| t.tags.iter().any(|x| x.eq_ignore_ascii_case(&tag)))`
Matching(tasks, tag) ==
    {x \in tasks : \E k \in DOMAIN x.tags : EqIgnoreAsciiCase(x.tags[k], tag)}

SearchRead(t) ==
    /\ pc[t] = "search_cs"
    /\ LET items == Matching(RepoList(store), ToLower(req[t].tag))
       IN  Finish(t, [status |-> 200, items |-> items, total |-> Cardinality(items)])
    /\ torn' = TornByAny
    /\ ReleaseRead(t)
    /\ UNCHANGED <<now, store, issued, req, loc, born, removed, returned, t0, absent>>

\* --------------------------------------------------------------- get_tasks
\* A usize is four 16-bit limbs, the least significant first.
LimbBase == 65536
UsizeLimbs == 4

\* the usize of a number below LimbBase
U(n) == [k \in 1 .. UsizeLimbs |-> IF k = 1 THEN n ELSE 0]

\* usize::MAX
UsizeMax == [k \in 1 .. UsizeLimbs |-> LimbBase - 1]

\* 2^63 + 1
UsizeHalfPlusOne == [k \in 1 .. UsizeLimbs |-> IF k = 1 THEN 1 ELSE IF k = UsizeLimbs THEN LimbBase \div 2 ELSE 0]

IsZero(x) == \A k \in 1 .. UsizeLimbs : x[k] = 0

\* x >= n, for a number n below LimbBase
GeSmall(x, n) == (\E k \in 2 .. UsizeLimbs : x[k] # 0) \/ x[1] >= n

\* `.max(1)`
MaxOne(x) == IF IsZero(x) THEN U(1) ELSE x

\* `.min(n)`, for a number n below LimbBase: the result as a number
MinSmall(x, n) == IF GeSmall(x, n) THEN n ELSE x[1]

\* `saturating_sub(1)`
SaturatingSubOne(x) ==
    IF IsZero(x) THEN x
    ELSE LET k == CHOOSE k \in 1 .. UsizeLimbs : x[k] # 0 /\ \A j \in 1 .. k - 1 : x[j] = 0
         IN  [j \in 1 .. UsizeLimbs |->
                 IF j < k THEN LimbBase - 1 ELSE IF j = k THEN x[j] - 1 ELSE x[j]]

\* the carry out of limb k when x * m + a is computed limb by limb
RECURSIVE Carry(_, _, _, _)
Carry(x, m, a, k) == IF k = 0 THEN a ELSE (x[k] * m + Carry(x, m, a, k - 1)) \div LimbBase

\* x * m + a in 64 bits, for numbers m and a below LimbBase, and whether the
\* exact result needs more than 64 bits
MulAdd(x, m, a) ==
    [val |-> [k \in 1 .. UsizeLimbs |-> (x[k] * m + Carry(x, m, a, k - 1)) % LimbBase],
     overflow |-> Carry(x, m, a, UsizeLimbs) # 0]

\* what an arithmetic overflow does: panic with overflow checks (the dev
\* profile), wrap around without them (the release profile)
OverflowModes == {"panic", "wrap"}

\* `s.starts_with("created_at")` and `s.ends_with(":desc")` on the sort
\* directives callers send
SortDirectives ==
    {"created_at", "created_at:asc", "created_at:desc", "priority:asc", "priority:desc",
     "updated_at:desc"}
StartsWithCreatedAt(s) == s \in {"created_at", "created_at:asc", "created_at:desc"}
EndsWithDesc(s) == s \in {"created_at:desc", "priority:desc", "updated_at:desc"}

\* `desc` after the sort directive was looked at
SortDesc(sort) == IsSome(sort) /\ StartsWithCreatedAt(Unwrap(sort)) /\ EndsWithDesc(Unwrap(sort))

\* the orders in which a HashMap can hand out its values
Orders(m) ==
    LET n == Cardinality(DOMAIN m)
    IN  {[k \in 1 .. n |-> m[p[k]]] :
            p \in {q \in [1 .. n -> DOMAIN m] : \A i, j \in 1 .. n : i # j => q[i] # q[j]}}

\* the place of base[i] in the sorted sequence: one more than the number of
\* records that go before it; records with equal keys keep their order
RankAsc(base, i) ==
    1 + Cardinality({j \in DOMAIN base :
            \/ base[j].created_at < base[i].created_at
            \/ base[j].created_at = base[i].created_at /\ j < i})

RankDesc(base, i) ==
    1 + Cardinality({j \in DOMAIN base :
            \/ base[j].created_at > base[i].created_at
            \/ base[j].created_at = base[i].created_at /\ j < i})

\* list_sorted_by_created_at ignoring its argument
SortedAscending(base, desc) ==
    [r \in DOMAIN base |-> base[CHOOSE i \in DOMAIN base : RankAsc(base, i) = r]]

\* TaskRepository::list_sorted_by_created_at: a stable sort of the values
SortedByCreatedAt(base, desc) ==
    [r \in DOMAIN base |->
        base[CHOOSE i \in DOMAIN base :
                 (IF desc THEN RankDesc(base, i) ELSE RankAsc(base, i)) = r]]

\* `items.retain(|t| t.completed == completed_val)`
RECURSIVE Retain(_, _)
Retain(items, completed) ==
    IF items = <<>> THEN <<>>
    ELSE IF Head(items).completed = completed
         THEN <<Head(items)>> \o Retain(Tail(items), completed)
         ELSE Retain(Tail(items), completed)

\* the completion filter dropping the records it should keep
FilterInverted(items, completed) ==
    IF IsSome(completed) THEN Retain(items, ~Unwrap(completed)) ELSE items

\* `if let Some(completed_val) = params.completed { items.retain(..) }`
Filter(items, completed) ==
    IF IsSome(completed) THEN Retain(items, Unwrap(completed)) ELSE items

\* `params.page.unwrap_or(1).max(1)`
EffectivePage(page) == MaxOne(IF IsSome(page) THEN Unwrap(page) ELSE U(1))

\* the page size without the cap
EffectivePerPageUncapped(per_page) ==
    LET requested == MaxOne(IF IsSome(per_page) THEN Unwrap(per_page) ELSE U(DefaultPerPage))
    IN  MinSmall(requested, LimbBase - 1)

\* `params.per_page.unwrap_or(20).max(1)` and `.min(per_page_cap)`
EffectivePerPage(per_page) ==
    LET requested == MaxOne(IF IsSome(per_page) THEN Unwrap(per_page) ELSE U(DefaultPerPage))
    IN  MinSmall(requested, PerPageCap)

\* `start`, `end` and `page_items`: the page, or the panic of an overflow
PageItems(items, page, per_page, mode) ==
    LET total == Len(items)
        start == MulAdd(SaturatingSubOne(page), per_page, 0)
        sum == MulAdd(start.val, 1, per_page)
        end == MinSmall(sum.val, total)
    IN  IF start.overflow /\ mode = "panic"
        THEN [panic |-> "attempt to multiply with overflow"]
        ELSE IF sum.overflow /\ mode = "panic"
        THEN [panic |-> "attempt to add with overflow"]
        ELSE [panic |-> "",
              items |-> IF GeSmall(start.val, total) THEN <<>>
                        ELSE SubSeq(items, start.val[1] + 1, end)]

\* the query strings of GET /tasks
ListQueries ==
    IF wl = "page"
    THEN [completed : {None, Some(TRUE), Some(FALSE)},
          page : {None, Some(U(0)), Some(U(1)), Some(U(2)), Some(UsizeHalfPlusOne)},
          per_page : {None, Some(U(0)), Some(U(1)), Some(U(2)), Some(U(PerPageCap + 1))},
          sort : {None, Some("created_at:desc"), Some("priority:asc"), Some("priority:desc")}]
    ELSE [completed : {Some(TRUE)}, page : {Some(U(1))}, per_page : {Some(U(1))},
          sort : {Some("created_at:desc")}]

ListBegin(t) ==
    /\ pc[t] = "idle"
    /\ \E q \in ListQueries :
        req' = [req EXCEPT ![t] =
                   [op |-> "list", completed |-> q.completed, page |-> q.page,
                    per_page |-> q.per_page, sort |-> q.sort]]
    /\ Park(t, "list_wait")
    /\ UNCHANGED <<now, store, issued, lockW, lockR, loc, res, histVars>>

\* `repo.list_sorted_by_created_at(desc)` under its read guard, then the
\* filter and the page of the copy it returned
ListRead(t) ==
    /\ pc[t] = "list_cs"
    /\ \E base \in Orders(store), mode \in OverflowModes :
        LET page == EffectivePage(req[t].page)
            per_page == EffectivePerPage(req[t].per_page)
            items == Filter(SortedByCreatedAt(base, SortDesc(req[t].sort)), req[t].completed)
            paged == PageItems(items, page, per_page, mode)
        IN  /\ loc' = [loc EXCEPT ![t] = Some(items)]
            /\ IF paged.panic # ""
               THEN Finish(t, [status |-> 0, error |-> paged.panic])
               ELSE Finish(t, [status |-> 200, items |-> paged.items, total |-> Len(items),
                               page |-> page, per_page |-> per_page])
    /\ torn' = TornByAny
    /\ ReleaseRead(t)
    /\ UNCHANGED <<now, store, issued, req, born, removed, returned, t0, absent>>

\* ---------------------------------------------- insert_many, remove_many
\* Both run their loop inside one write guard.  While a thread is in the
\* loop, `loc` holds the map as the guard found it (`before`, history) and
\* how far the loop has come.

\* insert_many: the records built so far
InsertProgress(t) ==
    IF loc[t] = None THEN [before |-> store, out |-> <<>>] ELSE Unwrap(loc[t])

\* insert_many: the record the next turn of the loop builds from dtos
NextTask(t, dtos) ==
    LET k == Len(InsertProgress(t).out) + 1
    IN  NewFull(req[t].ids[k], dtos[k].title, dtos[k].description, now)

\* insert_many: the records built once the next turn is over
Created(t, dtos) == Append(InsertProgress(t).out, NextTask(t, dtos))

\* insert_many: one turn of the loop, building and inserting a record
InsertManyTurn(t, dtos) ==
    /\ store' = RepoInsert(store, NextTask(t, dtos))
    /\ born' = BornAfter(<<NextTask(t, dtos)>>, now)
    /\ loc' = [loc EXCEPT ![t] =
                  Some([before |-> InsertProgress(t).before, out |-> Created(t, dtos)])]
    /\ absent' = AbsentAfter(store')
    /\ UNCHANGED <<now, issued, req, removed, returned, torn, t0>>

\* remove_many: the entries looked at so far (k) and the records removed (n)
RemoveProgress(t) ==
    IF loc[t] = None THEN [before |-> store, k |-> 0, n |-> 0] ELSE Unwrap(loc[t])

\* remove_many: the removed count once the next turn, on ids, is over
RemovedAfter(t, ids) ==
    RemoveProgress(t).n
        + (IF ids[RemoveProgress(t).k + 1] \in DOMAIN store THEN 1 ELSE 0)

\* remove_many: one turn of the loop, removing the record under the next entry
RemoveManyTurn(t, ids) ==
    /\ store' = RepoRemove(store, ids[RemoveProgress(t).k + 1])
    /\ removed' = removed \cup (DOMAIN store \ DOMAIN store')
    /\ loc' = [loc EXCEPT ![t] =
                  Some([before |-> RemoveProgress(t).before,
                        k |-> RemoveProgress(t).k + 1, n |-> RemovedAfter(t, ids)])]
    /\ UNCHANGED <<now, issued, req, born, returned, torn, t0, absent>>

\* ------------------------------------------------------- bulk_delete_tasks
BulkPayloads ==
    UNION {[1 .. n -> IdStrings] : n \in 0 .. (IF wl = "live" THEN 1 ELSE MaxBulk)}

\* the loop leaving at the first string Uuid::parse_str refuses
RECURSIVE ParseIdsUntilBad(_)
ParseIdsUntilBad(payload) ==
    IF payload = <<>> THEN <<>>
    ELSE IF IsSome(ParseStr(Head(payload)))
         THEN <<Unwrap(ParseStr(Head(payload)))>> \o ParseIdsUntilBad(Tail(payload))
         ELSE <<>>

\* the loop pushing every string Uuid::parse_str accepts
RECURSIVE ParseIds(_)
ParseIds(payload) ==
    IF payload = <<>> THEN <<>>
    ELSE IF IsSome(ParseStr(Head(payload)))
         THEN <<Unwrap(ParseStr(Head(payload)))>> \o ParseIds(Tail(payload))
         ELSE ParseIds(Tail(payload))

BulkBegin(t) ==
    /\ pc[t] = "idle"
    /\ \E payload \in BulkPayloads :
        /\ req' = [req EXCEPT ![t] = [op |-> "bulk", payload |-> payload]]
        /\ IF ParseIds(payload) = <<>>
           THEN Finish(t, [status |-> 200, deleted |-> 0]) /\ UNCHANGED queue
           ELSE Park(t, "bulk_wait") /\ UNCHANGED res
    /\ UNCHANGED <<now, store, issued, lockW, lockR, loc, histVars>>

\* `repo.remove_many(&ids)`, a turn of its loop; the last returns the count
BulkRemove(t) ==
    /\ pc[t] = "bulk_cs"
    /\ LET ids == ParseIds(req[t].payload)
       IN  /\ RemoveManyTurn(t, ids)
           /\ IF RemoveProgress(t).k + 1 = Len(ids)
              THEN /\ Finish(t, [status |-> 200, deleted |-> RemovedAfter(t, ids)])
                   /\ ReleaseWrite(t)
              ELSE UNCHANGED <<pc, res, lockVars>>

\* ------------------------------------------------------------ import_tasks
\* the content-type header values callers send
ContentTypes ==
    IF wl = "fields"
    THEN {"", "application/json", "text/csv", "text/plain", "text/csv+json"}
    ELSE IF wl = "live" THEN {"application/json"}
    ELSE IF wl = "upload" THEN {"application/json", "text/csv"}
    ELSE {"application/json", "text/plain"}

\* str::contains on the content type
Contains(ct, word) ==
    CASE word = "json" -> ct \in {"application/json", "text/csv+json"}
      [] word = "csv" -> ct \in {"text/csv", "text/csv+json", "text/csv; boundary=X"}
      [] word = "multipart/form-data" ->
            ct \in {"multipart/form-data", "multipart/form-data; boundary=",
                    "multipart/form-data; boundary=X"}
      [] OTHER -> FALSE

\* a payload: bytes that are not UTF-8, or text whose rows each decode to a
\* TaskCreate (Some) or do not (None)
ImportDtos == [title : Titles, description : {S("d")}]
ImportRows ==
    {Some(d) : d \in ImportDtos} \cup (IF wl \in {"fields", "upload"} THEN {None} ELSE {})
Bodies ==
    {[utf8 |-> FALSE, rows |-> <<>>]} \cup
    {[utf8 |-> TRUE, rows |-> r] :
        r \in UNION {[1 .. n -> ImportRows] : n \in 0 .. (IF wl = "live" THEN 1 ELSE MaxRows)}}

\* the valid rows with every `valid.push` turned into an insertion at the front
RECURSIVE ValidRowsFront(_)
ValidRowsFront(rows) ==
    IF rows = <<>> THEN <<>>
    ELSE IF IsSome(Head(rows)) /\ Validate(Unwrap(Head(rows))) = "ok"
         THEN ValidRowsFront(Tail(rows)) \o <<Unwrap(Head(rows))>>
         ELSE ValidRowsFront(Tail(rows))

\* the rows that pass TaskCreate::validate, in order (undecodable rows skipped)
RECURSIVE ValidRows(_)
ValidRows(rows) ==
    IF rows = <<>> THEN <<>>
    ELSE IF IsSome(Head(rows)) /\ Validate(Unwrap(Head(rows))) = "ok"
         THEN <<Unwrap(Head(rows))>> \o ValidRows(Tail(rows))
         ELSE ValidRows(Tail(rows))

\* the errors pushed for rows, the first of which is numbered k
RECURSIVE RowErrors(_, _)
RowErrors(rows, k) ==
    IF rows = <<>> THEN <<>>
    ELSE IF ~IsSome(Head(rows))
         THEN <<[at |-> k, error |-> "csv parse error"]>> \o RowErrors(Tail(rows), k + 1)
    ELSE IF Validate(Unwrap(Head(rows))) # "ok"
         THEN <<[at |-> k, error |-> Validate(Unwrap(Head(rows)))]>>
                  \o RowErrors(Tail(rows), k + 1)
    ELSE RowErrors(Tail(rows), k + 1)

\* import_tasks decoding a structured sequence up to its first bad element
ImportParseLenient(ct, body) ==
    IF Contains(ct, "json") \/ ct = ""
    THEN IF ~body.utf8
         THEN [status |-> 400, error |-> "json parse error"]
         ELSE [status |-> 0, valid |-> ValidRows(body.rows),
               errors |-> RowErrors(body.rows, 0)]
    ELSE IF Contains(ct, "csv")
    THEN IF ~body.utf8
         THEN [status |-> 400, error |-> "invalid utf8 in body"]
         ELSE [status |-> 0, valid |-> ValidRows(body.rows),
               errors |-> RowErrors(body.rows, 1)]
    ELSE [status |-> 400, error |-> "unsupported content-type"]

\* import_tasks up to `// persist valid rows`: a rejection, or valid and errors
ImportParse(ct, body) ==
    IF Contains(ct, "json") \/ ct = ""
    THEN IF ~body.utf8 \/ \E k \in DOMAIN body.rows : body.rows[k] = None
         THEN [status |-> 400, error |-> "json parse error"]
         ELSE [status |-> 0, valid |-> ValidRows(body.rows),
               errors |-> RowErrors(body.rows, 0)]
    ELSE IF Contains(ct, "csv")
    THEN IF ~body.utf8
         THEN [status |-> 400, error |-> "invalid utf8 in body"]
         ELSE [status |-> 0, valid |-> ValidRows(body.rows),
               errors |-> RowErrors(body.rows, 1)]
    ELSE [status |-> 400, error |-> "unsupported content-type"]

\* the response after `created` was persisted
ImportReport(parsed, created) ==
    [status |-> 201, imported |-> Len(created), failed |-> Len(parsed.errors),
     errors |-> parsed.errors, tasks |-> created]

\* the identifier sequences n calls of Uuid::new_v4 can return
NewV4Seqs(used, n) ==
    {q \in [1 .. n -> NewV4(used)] : \A i, j \in 1 .. n : i # j => q[i] # q[j]}

ImportBegin(t) ==
    /\ pc[t] = "idle"
    /\ \E ct \in ContentTypes, body \in Bodies :
        LET parsed == ImportParse(ct, body)
        IN  IF parsed.status = 400
            THEN /\ req' = [req EXCEPT ![t] = [op |-> "import", ct |-> ct, body |-> body]]
                 /\ Finish(t, parsed)
                 /\ UNCHANGED <<queue, issued>>
            ELSE IF parsed.valid = <<>>
            THEN /\ req' = [req EXCEPT ![t] = [op |-> "import", ct |-> ct, body |-> body]]
                 /\ Finish(t, ImportReport(parsed, <<>>))
                 /\ UNCHANGED <<queue, issued>>
            ELSE \E ids \in NewV4Seqs(issued, Len(parsed.valid)) :
                 /\ req' = [req EXCEPT ![t] =
                               [op |-> "import", ct |-> ct, body |-> body, ids |-> ids]]
                 /\ issued' = issued \cup {ids[k] : k \in DOMAIN ids}
                 /\ Park(t, "import_wait")
                 /\ UNCHANGED res
    /\ UNCHANGED <<now, store, lockW, lockR, loc, histVars>>

\* `repo.insert_many(&valid)`, a turn of its loop; the last returns `created`
ImportInsertMany(t) ==
    /\ pc[t] = "import_cs"
    /\ LET parsed == ImportParse(req[t].ct, req[t].body)
       IN  /\ InsertManyTurn(t, parsed.valid)
           /\ IF Len(Created(t, parsed.valid)) = Len(parsed.valid)
              THEN /\ Finish(t, ImportReport(parsed, Created(t, parsed.valid)))
                   /\ ReleaseWrite(t)
              ELSE UNCHANGED <<pc, res, lockVars>>

\* -------------------------------------------------------- import_tasks_csv
\* import_tasks_csv up to `repo.insert_many(&creates)`: the first row that
\* does not decode ends the request, and no row is validated
CsvParse(body) ==
    IF ~body.utf8 THEN [status |-> 400, error |-> "invalid utf8 in body"]
    ELSE IF \E k \in DOMAIN body.rows : body.rows[k] = None
    THEN [status |-> 400, error |-> "csv parse error"]
    ELSE [status |-> 0, creates |-> [k \in DOMAIN body.rows |-> Unwrap(body.rows[k])]]

ImportCsvBegin(t) ==
    /\ pc[t] = "idle"
    /\ \E body \in Bodies :
        LET parsed == CsvParse(body)
        IN  IF parsed.status = 400
            THEN /\ req' = [req EXCEPT ![t] = [op |-> "import_csv", body |-> body]]
                 /\ Finish(t, parsed)
                 /\ UNCHANGED <<queue, issued>>
            ELSE \E ids \in NewV4Seqs(issued, Len(parsed.creates)) :
                 /\ req' = [req EXCEPT ![t] =
                               [op |-> "import_csv", body |-> body, ids |-> ids]]
                 /\ issued' = issued \cup {ids[k] : k \in DOMAIN ids}
                 /\ Park(t, "icsv_wait")
                 /\ UNCHANGED res
    /\ UNCHANGED <<now, store, lockW, lockR, loc, histVars>>

\* `repo.insert_many(&creates)`, a turn of its loop, or none for no rows
ImportCsvInsertMany(t) ==
    /\ pc[t] = "icsv_cs"
    /\ LET creates == CsvParse(req[t].body).creates
       IN  IF creates = <<>>
           THEN /\ Finish(t, [status |-> 201, imported |-> 0, tasks |-> <<>>])
                /\ ReleaseWrite(t)
                /\ UNCHANGED <<now, store, issued, req, loc, histVars>>
           ELSE /\ InsertManyTurn(t, creates)
                /\ IF Len(Created(t, creates)) = Len(creates)
                   THEN /\ Finish(t, [status |-> 201,
                                      imported |-> Len(Created(t, creates)),
                                      tasks |-> Created(t, creates)])
                        /\ ReleaseWrite(t)
                   ELSE UNCHANGED <<pc, res, lockVars>>

\* ------------------------------------------------------- import_tasks_file
\* the content-type header values of an upload
FileContentTypes ==
    {"", "multipart/form-data", "multipart/form-data; boundary=",
     "multipart/form-data; boundary=X", "text/csv; boundary=X"}

\* `ct.find("boundary=")` and the slice after it, "" when there is none
BoundaryOf(ct) ==
    IF ct \in {"multipart/form-data; boundary=X", "text/csv; boundary=X"} THEN "X" ELSE ""

\* a piece `raw.split(&marker)` yields: `blank` when its trim is empty or
\* "--", `named` when it contains name="file", `sep` when it contains the
\* empty line, and the CSV rows after that line
FileParts ==
    {[blank |-> TRUE, named |-> FALSE, sep |-> FALSE, rows |-> <<>>],
     [blank |-> FALSE, named |-> FALSE, sep |-> TRUE, rows |-> <<>>],
     [blank |-> FALSE, named |-> TRUE, sep |-> FALSE, rows |-> <<>>]}
    \cup {[blank |-> FALSE, named |-> TRUE, sep |-> TRUE, rows |-> r] :
             r \in UNION {[1 .. n -> ImportRows] : n \in 0 .. 1}}

\* an upload: its length in bytes, whether it is UTF-8, and its pieces
FileBodies ==
    [len : {1, MaxBytes, MaxBytes + 1}, utf8 : BOOLEAN,
     parts : UNION {[1 .. n -> FileParts] : n \in 0 .. MaxRows}]

\* the loop over `parts`: the rows of the first file part that has the empty line
RECURSIVE FileContent(_)
FileContent(parts) ==
    IF parts = <<>> THEN None
    ELSE IF ~Head(parts).blank /\ Head(parts).named /\ Head(parts).sep
         THEN Some(Head(parts).rows)
         ELSE FileContent(Tail(parts))

\* import_tasks_file comparing `body.len() >= MAX_BYTES`
TooLargeFrom(n) == n >= MaxBytes

\* `body.len() > MAX_BYTES`
TooLarge(n) == n > MaxBytes

\* import_tasks_file up to `repo.insert_many(&valid)`: a rejection, or valid
\* and errors
FileParse(ct, body) ==
    IF TooLarge(body.len) THEN [status |-> 413, error |-> "payload too large"]
    ELSE IF ~Contains(ct, "multipart/form-data") \/ BoundaryOf(ct) = ""
    THEN [status |-> 400, error |-> "expected multipart/form-data with boundary"]
    ELSE IF ~body.utf8 THEN [status |-> 400, error |-> "invalid utf8 in body"]
    ELSE IF FileContent(body.parts) = None
    THEN [status |-> 400, error |-> "file part not found"]
    ELSE [status |-> 0, valid |-> ValidRows(Unwrap(FileContent(body.parts))),
          errors |-> RowErrors(Unwrap(FileContent(body.parts)), 1)]

ImportFileBegin(t) ==
    /\ pc[t] = "idle"
    /\ \E ct \in FileContentTypes, body \in FileBodies :
        LET parsed == FileParse(ct, body)
        IN  IF parsed.status # 0
            THEN /\ req' = [req EXCEPT ![t] =
                               [op |-> "import_file", ct |-> ct, body |-> body]]
                 /\ Finish(t, parsed)
                 /\ UNCHANGED <<queue, issued>>
            ELSE IF parsed.valid = <<>>
            THEN /\ req' = [req EXCEPT ![t] =
                               [op |-> "import_file", ct |-> ct, body |-> body]]
                 /\ Finish(t, ImportReport(parsed, <<>>))
                 /\ UNCHANGED <<queue, issued>>
            ELSE \E ids \in NewV4Seqs(issued, Len(parsed.valid)) :
                 /\ req' = [req EXCEPT ![t] =
                               [op |-> "import_file", ct |-> ct, body |-> body,
                                ids |-> ids]]
                 /\ issued' = issued \cup {ids[k] : k \in DOMAIN ids}
                 /\ Park(t, "ifile_wait")
                 /\ UNCHANGED res
    /\ UNCHANGED <<now, store, lockW, lockR, loc, histVars>>

\* `repo.insert_many(&valid)`, a turn of its loop; the last returns `created`
ImportFileInsertMany(t) ==
    /\ pc[t] = "ifile_cs"
    /\ LET parsed == FileParse(req[t].ct, req[t].body)
       IN  /\ InsertManyTurn(t, parsed.valid)
           /\ IF Len(Created(t, parsed.valid)) = Len(parsed.valid)
              THEN /\ Finish(t, ImportReport(parsed, Created(t, parsed.valid)))
                   /\ ReleaseWrite(t)
              ELSE UNCHANGED <<pc, res, lockVars>>

\* ------------------------------------------------------------ set_priority
\* the strings a caller sends as a priority
PriorityStrings ==
    {LevelName(p) : p \in Levels}
    \cup {Str(<<"H", "I", "G", "H">>), Str(<<"L", "o", "w">>),
          <<Run(" ", 1)>> \o LevelName("high") \o <<Run(" ", 1)>>,
          Str(<<"h", "i">>), <<>>}

\* the path and the payload are parsed; either can reject the request
SetPriorityBegin(t) ==
    /\ pc[t] = "idle"
    /\ \E s \in IdStrings, p \in PriorityStrings :
        /\ req' = [req EXCEPT ![t] = [op |-> "set_priority", id |-> s, priority |-> p]]
        /\ IF ParseStr(s) = None
           THEN /\ Finish(t, [status |-> 400, error |-> "invalid uuid"])
                /\ UNCHANGED <<queue, absent>>
           ELSE IF PriorityParse(p) = None
           THEN /\ Finish(t, [status |-> 400, error |-> "invalid priority"])
                /\ UNCHANGED queue
                /\ absent' = [absent EXCEPT ![t] = s \notin DOMAIN store]
           ELSE /\ Park(t, "sp_get_wait")
                /\ absent' = [absent EXCEPT ![t] = s \notin DOMAIN store]
                /\ UNCHANGED res
    /\ UNCHANGED <<now, store, issued, lockW, lockR, loc, born, removed, returned, torn, t0>>

\* the record is read, and the copy takes the level and the clock's reading
SetPriorityGet(t) ==
    /\ pc[t] = "sp_get_cs"
    /\ LET found == RepoGet(store, req[t].id)
       IN  IF IsSome(found)
           THEN /\ loc' = [loc EXCEPT ![t] =
                              Some([Unwrap(found) EXCEPT
                                       !.priority = Unwrap(PriorityParse(req[t].priority)),
                                       !.updated_at = now])]
                /\ pc' = [pc EXCEPT ![t] = "sp_ins_call"]
                /\ UNCHANGED res
           ELSE /\ Finish(t, [status |-> 404, error |-> "not found"])
                /\ UNCHANGED loc
    /\ torn' = TornBy(req[t].id)
    /\ ReleaseRead(t)
    /\ UNCHANGED <<now, store, issued, req, born, removed, returned, t0, absent>>

SetPriorityCallInsert(t) ==
    /\ pc[t] = "sp_ins_call"
    /\ Park(t, "sp_ins_wait")
    /\ UNCHANGED <<now, store, issued, lockW, lockR, req, loc, res, histVars>>

\* the copy is written back
SetPriorityInsert(t) ==
    /\ pc[t] = "sp_ins_cs"
    /\ store' = RepoInsert(store, Unwrap(loc[t]))
    /\ absent' = AbsentAfter(store')
    /\ ReleaseWrite(t)
    /\ Finish(t, [status |-> 200, priority |-> Unwrap(loc[t]).priority])
    /\ UNCHANGED <<now, issued, req, loc, born, removed, returned, torn, t0>>

\* ------------------------------------------------------------ get_priority
GetPriorityBegin(t) ==
    \E s \in IdStrings : BeginWithId(t, [op |-> "get_priority", id |-> s], "gp_wait")

GetPriorityRead(t) ==
    /\ pc[t] = "gp_cs"
    /\ LET found == RepoGet(store, req[t].id)
       IN  IF IsSome(found)
           THEN Finish(t, [status |-> 200, priority |-> Unwrap(found).priority])
           ELSE Finish(t, [status |-> 404, error |-> "not found"])
    /\ torn' = TornBy(req[t].id)
    /\ ReleaseRead(t)
    /\ UNCHANGED <<now, store, issued, req, loc, born, removed, returned, t0, absent>>

\* --------------------------------------------------------------- get_stats
\* `items.len()`
Total(m) == Cardinality(DOMAIN m)

\* `items.iter().filter(|t| t.completed).count()`
CompletedCount(m) == Cardinality({i \in DOMAIN m : m[i].completed})

\* the keys of `tag_counts` after the two loops
TagsOf(m) == UNION {{m[i].tags[k] : k \in DOMAIN m[i].tags} : i \in DOMAIN m}

\* the value of `tag_counts` under a tag: one for every entry equal to it
TagCount(m, tag) ==
    Cardinality(UNION {{<<i, k>> : k \in {j \in DOMAIN m[i].tags : m[i].tags[j] = tag}} :
                          i \in DOMAIN m})

\* `tag_counts.into_iter()`: the pairs, in no order
TagCounts(m) == {[tag |-> g, count |-> TagCount(m, g)] : g \in TagsOf(m)}

\* the comparator of `tag_vec.sort_by`: a goes before b
ByCountThenName(a, b) ==
    a.count > b.count \/ (a.count = b.count /\ StrLess(a.tag, b.tag))

\* `tag_vec` after sort_by; no two pairs compare equal, the tags being keys
SortedTags(entries) ==
    [k \in 1 .. Cardinality(entries) |->
        CHOOSE e \in entries :
            Cardinality({f \in entries : ByCountThenName(f, e)}) = k - 1]

\* `.take(n)` that stops nowhere
TakeAll(seq, n) == seq

\* `.iter().take(n)`
Take(seq, n) == SubSeq(seq, 1, IF Len(seq) < n THEN Len(seq) ELSE n)

\* min_by_key answering with the largest key
MinCreatedAtLargest(m) ==
    IF DOMAIN m = {} THEN None
    ELSE Some(CHOOSE v \in {m[i].created_at : i \in DOMAIN m} :
                  \A i \in DOMAIN m : v >= m[i].created_at)

\* `items.iter().min_by_key(|t| t.created_at)`, the key of the record found
MinCreatedAt(m) ==
    IF DOMAIN m = {} THEN None
    ELSE Some(CHOOSE v \in {m[i].created_at : i \in DOMAIN m} :
                  \A i \in DOMAIN m : v <= m[i].created_at)

\* `items.iter().max_by_key(|t| t.created_at)`, the key of the record found
MaxCreatedAt(m) ==
    IF DOMAIN m = {} THEN None
    ELSE Some(CHOOSE v \in {m[i].created_at : i \in DOMAIN m} :
                  \A i \in DOMAIN m : v >= m[i].created_at)

\* DateTime<Utc>::to_rfc3339: the reading as text with its offset
Rfc3339(t) == [date_time |-> t, offset |-> "+00:00"]

\* `.map(|t| t.created_at.to_rfc3339())`
MapRfc3339(o) == IF IsSome(o) THEN Some(Rfc3339(Unwrap(o))) ELSE None

StatsBegin(t) ==
    /\ pc[t] = "idle"
    /\ req' = [req EXCEPT ![t] = [op |-> "stats"]]
    /\ Park(t, "stats_wait")
    /\ UNCHANGED <<now, store, issued, lockW, lockR, loc, res, histVars>>

\* `repo.list()` under its read guard, then the summary of the copy
StatsRead(t) ==
    /\ pc[t] = "stats_cs"
    /\ Finish(t, [status |-> 200,
                  total |-> Total(store),
                  completed |-> CompletedCount(store),
                  incomplete |-> Total(store) - CompletedCount(store),
                  tag_distribution |-> Take(SortedTags(TagCounts(store)), TopN),
                  oldest_created_at |-> MapRfc3339(MinCreatedAt(store)),
                  newest_created_at |-> MapRfc3339(MaxCreatedAt(store))])
    /\ torn' = TornByAny
    /\ ReleaseRead(t)
    /\ UNCHANGED <<now, store, issued, req, loc, born, removed, returned, t0, absent>>

\* ------------------------------------------------------------------ the rest
\* the response leaves; the thread takes the next request
Return(t) ==
    /\ pc[t] = "done"
    /\ pc' = [pc EXCEPT ![t] = "idle"]
    /\ returned' = IF req[t].op = "create"
                   THEN returned \cup {Unwrap(res[t]).task.id}
                   ELSE returned
    /\ req' = [req EXCEPT ![t] = Idle]
    /\ loc' = [loc EXCEPT ![t] = None]
    /\ res' = [res EXCEPT ![t] = None]
    /\ t0' = [t0 EXCEPT ![t] = 0]
    /\ absent' = [absent EXCEPT ![t] = FALSE]
    /\ UNCHANGED <<now, store, issued, lockVars, born, removed, torn>>

\* time passes
Tick ==
    /\ now < MaxClock
    /\ now' = now + 1
    /\ UNCHANGED <<wl, calls, store, issued, lockVars, threadVars, histVars>>

\* requests served in one run: one where the store is given
CallBudget == IF wl \in {"page", "stats"} THEN 1 ELSE MaxCalls

\* a request arrives at an idle thread
Begin(t) ==
    /\ t \in Callers
    /\ calls < CallBudget
    /\ calls' = calls + 1
    /\ UNCHANGED wl
    /\ \/ /\ wl \in {"race", "live", "fields", "tags"}
          /\ \/ CreateBegin(t) \/ GetBegin(t) \/ UpdateBegin(t) \/ DeleteBegin(t)
             \/ CountBegin(t) \/ GetTagsBegin(t) \/ SetTagsBegin(t) \/ SearchBegin(t)
             \/ BulkBegin(t) \/ ImportBegin(t)
       \/ wl = "page" /\ ListBegin(t)
       \/ /\ wl = "prio"
          /\ CreateBegin(t) \/ SetPriorityBegin(t) \/ GetPriorityBegin(t)
       \/ wl = "stats" /\ StatsBegin(t)
       \/ /\ wl = "upload"
          /\ ImportBegin(t) \/ ImportCsvBegin(t) \/ ImportFileBegin(t)

\* every step of a call already begun, the response's departure included
Step(t) ==
    /\ UNCHANGED <<wl, calls>>
    /\
       \/ AcquireRead(t) \/ AcquireWrite(t)
       \/ CreateInsert(t) \/ GetRead(t)
       \/ UpdateFields(t) \/ UpdateMissing(t) \/ UpdateStamp(t)
       \/ DeleteRemove(t) \/ CountRead(t) \/ GetTagsRead(t)
       \/ SetTagsGet(t) \/ SetTagsCallUpdate(t) \/ SetTagsUpdateFields(t)
       \/ SetTagsUpdateMissing(t) \/ SetTagsUpdateStamp(t) \/ SetTagsCallInsert(t)
       \/ SetTagsInsert(t) \/ SearchRead(t) \/ BulkRemove(t) \/ ImportInsertMany(t)
       \/ ListRead(t)
       \/ SetPriorityGet(t) \/ SetPriorityCallInsert(t) \/ SetPriorityInsert(t)
       \/ GetPriorityRead(t) \/ StatsRead(t)
       \/ ImportCsvInsertMany(t) \/ ImportFileInsertMany(t)
       \/ Return(t)

Next == Tick \/ \E t \in Threads : Begin(t) \/ Step(t)

Spec == Init /\ [][Next]_vars

FieldsSpec == FieldsInit /\ [][Next]_vars

TagsSpec == TagsInit /\ [][Next]_vars

PageSpec == PageInit /\ [][Next]_vars

PrioSpec == PrioInit /\ [][Next]_vars

StatsSpec == StatsInit /\ [][Next]_vars

UploadSpec == UploadInit /\ [][Next]_vars

\* the scheduler runs every thread that can take a step
FairSpec == LiveInit /\ [][Next]_vars /\ \A t \in Threads : WF_vars(Step(t))

\* ================================================================== claims
Done(t, op) == pc[t] = "done" /\ req[t].op = op
Response(t) == Unwrap(res[t])

WriteScopes ==
    {"create_cs", "update_cs", "update_stamp", "delete_cs", "bulk_cs", "import_cs",
     "st_upd_cs", "st_upd_stamp", "st_ins_cs", "sp_ins_cs", "icsv_cs", "ifile_cs"}
ReadScopes ==
    {"get_cs", "tags_cs", "count_cs", "search_cs", "st_get_cs", "list_cs", "sp_get_cs",
     "gp_cs", "stats_cs"}

\* C1: no thread is inside a write guard's scope together with any other
\* thread inside a read or write guard's scope, and no get, list or count
\* read a record between apply_update's field assignments and its stamp.
C1_WritersExclusive ==
    /\ \A t, u \in Threads :
        t # u /\ pc[t] \in WriteScopes => pc[u] \notin WriteScopes \cup ReadScopes
    /\ ~torn

\* an update has assigned its fields and not yet stamped while a get of the
\* same record waits for the lock
C1_Witness ==
    \E t, u \in Threads :
        /\ pc[t] = "update_stamp" /\ pc[u] = "get_wait"
        /\ req[u].id = req[t].id
        /\ store[req[t].id].title # store[req[t].id].description

\* C2: the identifier a create returns differs from the identifier of every
\* other create, returned earlier or at the same time, and every record a
\* create returned is in the store unless a delete removed it.
C2_CreatesKept ==
    /\ \A t \in Threads : Done(t, "create") =>
        /\ Response(t).task.id \notin returned
        /\ \A u \in Threads \ {t} :
            Done(u, "create") => Response(u).task.id # Response(t).task.id
        /\ Response(t).task.id \in DOMAIN store \cup removed
    /\ \A i \in returned : i \in DOMAIN store \cup removed

\* two creates that overlapped have both returned and both records are stored
C2_Witness ==
    \E t, u \in Threads :
        /\ t # u /\ Done(t, "create") /\ Done(u, "create")
        /\ {Response(t).task.id, Response(u).task.id} \subseteq DOMAIN store
        /\ Cardinality(DOMAIN store) = 2

\* C3: an identifier whose record a delete or bulk delete removed is never in
\* the store again.
C3_NeverStoredAgain == \A i \in removed : i \notin DOMAIN store

\* C4: the record a successful set_tags returns carries the normalized tags
\* and a last-modified timestamp read during the call.
C4_Restamped ==
    \A t \in Threads : Done(t, "set_tags") /\ Response(t).status = 200 =>
        /\ Response(t).task.tags = req[t].tags
        /\ Response(t).task.updated_at >= t0[t]

\* C5: every call that has begun returns.
C5_EveryCallReturns == \A t \in Threads : (pc[t] # "idle") ~> (pc[t] = "idle")

\* a set_tags is parked before its insert behind another thread's write guard
C5_Witness ==
    \E t \in Threads : pc[t] = "st_ins_wait" /\ lockW \notin {0, t} /\ queue = <<t>>

\* C6: every stored record has created_at <= updated_at, and its created_at
\* is the one Task::new_full gave it.
C6_CreatedBeforeUpdated ==
    \A i \in DOMAIN store :
        /\ store[i].created_at <= store[i].updated_at
        /\ store[i].created_at = born[i]

\* a record updated at a later clock reading than it was created at
C6_Witness ==
    \E i \in DOMAIN store : store[i].created_at < store[i].updated_at

\* what update(id, upd) may change of the record old: the supplied fields
SameBut(old, new, upd) ==
    /\ new.title = (IF IsSome(upd.title) THEN Unwrap(upd.title) ELSE old.title)
    /\ new.description =
           (IF IsSome(upd.description) THEN Unwrap(upd.description) ELSE old.description)
    /\ new.completed =
           (IF IsSome(upd.completed) THEN Unwrap(upd.completed) ELSE old.completed)
    /\ new.id = old.id /\ new.created_at = old.created_at
    /\ new.tags = old.tags /\ new.priority = old.priority

\* one step of update_task's repo.update: the field assignments, then the stamp
UpdateFrame(t) ==
    LET i == req[t].id IN
    /\ pc[t] = "update_cs" /\ pc'[t] = "update_stamp" =>
        /\ DOMAIN store' = DOMAIN store
        /\ \A j \in DOMAIN store \ {i} : store'[j] = store[j]
        /\ SameBut(store[i], store'[i], req[t].upd)
        /\ store'[i].updated_at = store[i].updated_at
    /\ pc[t] = "update_stamp" =>
        /\ DOMAIN store' = DOMAIN store
        /\ \A j \in DOMAIN store \ {i} : store'[j] = store[j]
        /\ SameBut(store[i], store'[i], NoFields)
        /\ store'[i].updated_at >= store[i].updated_at
        /\ pc'[t] = "done" => res'[t] = Some([status |-> 200, task |-> store'[i]])

\* C7: update(id, partial) on an existing record changes the supplied fields
\* and last-modified, which does not decrease, and nothing else in the store;
\* the copy it returns is the stored record.
C7_UpdateFrame == [][\A t \in Threads : UpdateFrame(t)]_vars

\* an update that supplied only the description has returned, with a second
\* record in the store
C7_Witness ==
    \E t \in Threads :
        /\ Done(t, "update") /\ Response(t).status = 200
        /\ req[t].upd.title = None /\ req[t].upd.description # None
        /\ req[t].upd.completed = None
        /\ Cardinality(DOMAIN store) = 2
        /\ Response(t).task.updated_at > Response(t).task.created_at

IdOps == {"get", "update", "delete", "set_tags", "get_tags"}

\* C8 as claimed: a call on a well-formed identifier under which no record was
\* stored during the call returns not-found.
C8_AlwaysNotFound ==
    \A t \in Threads :
        pc[t] = "done" /\ req[t].op \in IdOps /\ absent[t] => Response(t).status = 404

\* the outcome for an identifier with no record: not-found, but the validation
\* error when set_tags was given a tag list validate_tags rejects
AbsentOutcome(t) ==
    IF req[t].op = "set_tags" /\ ValidateTags(req[t].raw) # "ok" THEN 400 ELSE 404

\* C8 amended: such a call returns not-found, set_tags only when its tag list
\* passes validation and the validation error otherwise, and no step of the
\* call changes the store.
C8_NotFoundUnlessInvalidTags ==
    /\ [](\A t \in Threads :
            pc[t] = "done" /\ req[t].op \in IdOps /\ absent[t]
                => Response(t).status = AbsentOutcome(t))
    /\ [][\A t \in Threads :
            absent[t] /\ req[t].op \in IdOps /\ pc'[t] # pc[t] => store' = store]_vars

\* a set_tags with valid tags returned not-found while another record was stored
C8_Witness ==
    \E t \in Threads :
        /\ Done(t, "set_tags") /\ absent[t] /\ Response(t).status = 404
        /\ DOMAIN store # {}

\* C9: every record Create or Import stored has a title that is not empty
\* after trimming.
C9_TitlesNotBlank ==
    \A t \in Threads :
        /\ Done(t, "create") /\ Response(t).status = 201
            => ~IsEmpty(Trim(Response(t).task.title))
        /\ Done(t, "import") /\ Response(t).status = 201
            => \A k \in DOMAIN Response(t).tasks :
                   ~IsEmpty(Trim(Response(t).tasks[k].title))

\* a tag list as the data model allows it
TagsWellFormed(tags) ==
    /\ \A j, k \in DOMAIN tags : j # k => ToLower(tags[j]) # ToLower(tags[k])
    /\ \A k \in DOMAIN tags : ~IsEmpty(Trim(tags[k])) /\ CharLen(tags[k]) <= MaxTagLen

\* C10: the tags of every stored record hold no two entries equal ignoring
\* case, no blank entry and no entry longer than 64 characters, and a record
\* Create or Import returns has no tags.
C10_TagsWellFormed ==
    /\ \A i \in DOMAIN store : TagsWellFormed(store[i].tags)
    /\ \A t \in Threads :
        /\ Done(t, "create") => Response(t).task.tags = <<>>
        /\ Done(t, "import") /\ Response(t).status = 201
            => \A k \in DOMAIN Response(t).tasks : Response(t).tasks[k].tags = <<>>

\* set_tags stored one tag for two entries that differ only in case
C10_Witness ==
    \E t \in Threads :
        /\ Done(t, "set_tags") /\ Response(t).status = 200
        /\ Len(req[t].raw) = 2 /\ req[t].raw[1] # req[t].raw[2]
        /\ Len(req[t].tags) = 1
        /\ req[t].id \in DOMAIN store /\ store[req[t].id].tags = req[t].tags

\* an entry the data model forbids: blank, or longer than 64 characters
BadEntry(s) == IsEmpty(Trim(s)) \/ CharLen(s) > MaxTagLen

ValidationErrors == {"tags must not contain empty entries", "tag too long (max 64 chars)"}

\* C11: a set_tags whose list holds a blank or over-long entry, at any
\* position, is answered with a validation error by the step that accepted
\* the request, which leaves the store as it was, and the call never waits
\* for the lock.
C11_RejectedWhole ==
    [][\A t \in Threads :
          (req'[t].op = "set_tags" /\ \E k \in DOMAIN req'[t].raw : BadEntry(req'[t].raw[k]))
              => /\ pc'[t] = "done"
                 /\ res'[t] # None
                 /\ Unwrap(res'[t]).status = 400
                 /\ Unwrap(res'[t]).error \in ValidationErrors
                 /\ pc[t] = "idle" => store' = store]_vars

\* a list whose second entry is bad and whose first is not was rejected for
\* a record that carries tags
C11_Witness ==
    \E t \in Threads :
        /\ Done(t, "set_tags") /\ Response(t).status = 400
        /\ Len(req[t].raw) = 2 /\ ~BadEntry(req[t].raw[1]) /\ BadEntry(req[t].raw[2])
        /\ req[t].id \in DOMAIN store /\ store[req[t].id].tags # <<>>

\* C12: normalizing the normalized form of a tag list changes nothing, for
\* the list of every request and the tags of every stored record.
C12_NormalizeIdempotent ==
    /\ \A t \in Threads :
        req[t].op = "set_tags" => NormalizeTags(NormalizeTags(req[t].raw)) = NormalizeTags(req[t].raw)
    /\ \A i \in DOMAIN store : NormalizeTags(store[i].tags) = store[i].tags

\* a list of twice the same upper-case entry was normalized to one entry
C12_Witness ==
    \E t \in Threads :
        /\ req[t].op = "set_tags" /\ Len(req[t].raw) = 2
        /\ req[t].raw[1] = req[t].raw[2]
        /\ NormalizeTags(req[t].raw) # <<req[t].raw[1]>>
        /\ Len(NormalizeTags(req[t].raw)) = 1

\* the page and the page size a list request asks for, once clamped
AskedPage(q) == IF q.page = None \/ q.page = Some(U(0)) THEN U(1) ELSE Unwrap(q.page)
AskedPerPage(q) ==
    IF q.per_page = None THEN DefaultPerPage
    ELSE IF Unwrap(q.per_page) = U(0) THEN 1
    ELSE IF GeSmall(Unwrap(q.per_page), PerPageCap) THEN PerPageCap
    ELSE Unwrap(q.per_page)[1]

\* the record passes the completion filter of the request
Passes(rec, q) == q.completed = None \/ rec.completed = Unwrap(q.completed)

Least(a, b) == IF a < b THEN a ELSE b

\* C13: a list answers with total = T, the number of records that pass the
\* filter, and with the items at positions S*(P-1) .. min(S*P, T)-1 of the
\* filtered sorted sequence, max(0, min(S, T - S*(P-1))) of them.
C13_PageWindow ==
    \A t \in Threads : Done(t, "list") =>
        LET matching == Cardinality({i \in DOMAIN store : Passes(store[i], req[t])})
            size == AskedPerPage(req[t])
            before == SaturatingSubOne(AskedPage(req[t]))
            first == IF GeSmall(before, matching) THEN matching ELSE size * before[1]
            last == IF GeSmall(before, matching) THEN matching ELSE Least(size * (before[1] + 1), matching)
        IN  /\ Response(t).status = 200
            /\ Response(t).total = matching
            /\ Len(Unwrap(loc[t])) = matching
            /\ Response(t).items = SubSeq(Unwrap(loc[t]), first + 1, last)
            /\ Len(Response(t).items) = IF first >= matching THEN 0 ELSE Least(size, matching - first)

\* C14: a list response reports page 1 for a requested page that is absent
\* or below 1, page size 20 for an absent one, 1 for one below 1 and 100 for
\* one above 100, and else the requested values; the reported page is at
\* least 1 and the reported page size within 1 .. 100.
C14_EffectiveReported ==
    \A t \in Threads : Done(t, "list") /\ Response(t).status = 200 =>
        /\ Response(t).page = AskedPage(req[t])
        /\ Response(t).per_page = AskedPerPage(req[t])
        /\ ~IsZero(Response(t).page)
        /\ Response(t).per_page \in 1 .. PerPageCap

\* page 0 and page size 101 were asked for and 1 and 100 reported
C14_Witness ==
    \E t \in Threads :
        /\ Done(t, "list") /\ Response(t).status = 200
        /\ req[t].page = Some(U(0)) /\ req[t].per_page = Some(U(PerPageCap + 1))
        /\ Response(t).page = U(1) /\ Response(t).per_page = PerPageCap
        /\ Len(Response(t).items) = MaxPageRecords

\* seq is in the order of creation the directive asks for (any order for a
\* directive that does not name created_at)
InOrder(seq, sort) ==
    \A i, j \in DOMAIN seq : i < j =>
        IF sort = Some("created_at:desc") THEN seq[i].created_at >= seq[j].created_at
        ELSE IF sort = None THEN seq[i].created_at <= seq[j].created_at
        ELSE TRUE

\* the positions in seq of the records that pass the filter
KeptAt(seq, q) == {i \in DOMAIN seq : Passes(seq[i], q)}

\* seq without the records that do not pass the filter
Kept(seq, q) ==
    [k \in 1 .. Cardinality(KeptAt(seq, q)) |->
        seq[CHOOSE i \in KeptAt(seq, q) : Cardinality({j \in KeptAt(seq, q) : j < i}) = k - 1]]

\* C15: the items of a list response are a contiguous window of the whole
\* store, sorted and then without the records that do not pass the filter;
\* every item passes the filter, and without a completion parameter the
\* total counts every record.
C15_SortFilterPage ==
    \A t \in Threads : Done(t, "list") /\ Response(t).status = 200 =>
        /\ \E full \in Orders(store) :
            /\ InOrder(full, req[t].sort)
            /\ \E from \in 0 .. Len(Kept(full, req[t])) - Len(Response(t).items) :
                Response(t).items =
                    SubSeq(Kept(full, req[t]), from + 1, from + Len(Response(t).items))
            /\ Response(t).total = Len(Kept(full, req[t]))
        /\ \A k \in DOMAIN Response(t).items : Passes(Response(t).items[k], req[t])
        /\ req[t].completed = None => Response(t).total = Cardinality(DOMAIN store)

\* the second page of size 1 of the completed records, newest first, of a
\* store that also holds a record that is not completed
C15_Witness ==
    \E t \in Threads :
        /\ Done(t, "list") /\ Response(t).status = 200
        /\ req[t].completed = Some(TRUE) /\ req[t].sort = Some("created_at:desc")
        /\ req[t].page = Some(U(2)) /\ req[t].per_page = Some(U(1))
        /\ Response(t).total = 2 /\ Len(Response(t).items) = 1
        /\ Cardinality(DOMAIN store) = 3
        /\ \E i \in DOMAIN store : store[i].created_at > Response(t).items[1].created_at

Reverse(seq) == [k \in 1 .. Len(seq) |-> seq[Len(seq) + 1 - k]]

\* the list request asked for every record, newest first
NewestFirst(t) ==
    /\ Done(t, "list") /\ Response(t).status = 200
    /\ req[t].sort = Some("created_at:desc") /\ req[t].completed = None

\* no record was created later than the first of seq
MostRecentFirst(seq) ==
    seq # <<>> => \A i \in DOMAIN store : store[i].created_at <= seq[1].created_at

DistinctTimes ==
    \A i, j \in DOMAIN store : i # j => store[i].created_at # store[j].created_at

C17_PrioritySorted ==
    \A t \in Threads : Done(t, "list") /\ Response(t).status = 200 =>
        \A i, j \in DOMAIN Response(t).items : i < j =>
            /\ req[t].sort = Some("priority:asc") =>
                SortValue(Response(t).items[i].priority)
                    <= SortValue(Response(t).items[j].priority)
            /\ req[t].sort = Some("priority:desc") =>
                SortValue(Response(t).items[i].priority)
                    >= SortValue(Response(t).items[j].priority)

\* s names the level p ignoring case, after trimming when `trims`
NamesLevel(s, p, trims) == ToLower(IF trims THEN Trim(s) ELSE s) = LevelName(p)

\* thread t's call of `op` on a record the store holds returns in this step
Returns(t, op) ==
    /\ pc[t] # "done" /\ pc'[t] = "done"
    /\ req'[t].op = op
    /\ req'[t].id \in DOMAIN store

\* what one step may do to priorities, `trims` saying how a string names a level
PriorityStep(trims) ==
    /\ \A t \in Callers :
        Returns(t, "set_priority") =>
            IF \E p \in Levels : NamesLevel(req'[t].priority, p, trims)
            THEN \A p \in Levels :
                    NamesLevel(req'[t].priority, p, trims) =>
                        /\ Unwrap(res'[t]).status = 200
                        /\ req'[t].id \in DOMAIN store'
                        /\ store'[req'[t].id].priority = p
            ELSE /\ Unwrap(res'[t]).status = 400
                 /\ Unwrap(res'[t]).error = "invalid priority"
                 /\ store' = store
    /\ \A t \in Callers :
        Returns(t, "get_priority") =>
            /\ Unwrap(res'[t]).status = 200
            /\ Unwrap(res'[t]).priority = store[req'[t].id].priority
    /\ \A i \in DOMAIN store' :
        IF i \in DOMAIN store
        THEN store'[i].priority # store[i].priority =>
                \E t \in Callers : req[t].op = "set_priority" /\ req[t].id = i
        ELSE store'[i].priority = "medium"

\* C18 as stated: set_priority on a stored record stores the level its string
\* equals ignoring case and get_priority returns the stored level; a string
\* that equals none of the four ignoring case is rejected as an invalid
\* priority and leaves the store as it was; a record no set_priority wrote
\* has priority medium
C18_EqualIgnoringCase == [][PriorityStep(FALSE)]_vars

\* C18, amended: the same with the string compared after its surrounding
\* whitespace is trimmed
C18_EqualTrimmedIgnoringCase == [][PriorityStep(TRUE)]_vars

\* a set_priority with an upper-case string has stored its level
C18_Witness ==
    \E t \in Callers :
        /\ Done(t, "set_priority")
        /\ req[t].priority = Str(<<"H", "I", "G", "H">>)
        /\ Response(t).status = 200
        /\ req[t].id \in DOMAIN store
        /\ store[req[t].id].priority = "high"

\* the creation timestamps of the stored records
CreationTimes == {store[i].created_at : i \in DOMAIN store}

\* C19: the summary a get_stats call returned counts the stored records, the
\* completed ones and the rest, reports the least and the greatest creation
\* timestamp, and on the empty store zeros, no tags and no timestamps, the
\* timestamps being absent on the empty store only
C19_StatsTotals ==
    \A t \in Callers :
        Done(t, "stats") =>
            LET r == Response(t)
            IN  /\ r.total = Cardinality(DOMAIN store)
                /\ r.completed = Cardinality({i \in DOMAIN store : store[i].completed})
                /\ r.incomplete = r.total - r.completed
                /\ r.completed + r.incomplete = r.total
                /\ r.completed >= 0 /\ r.incomplete >= 0
                /\ DOMAIN store # {} =>
                    /\ \E lo \in CreationTimes :
                        /\ \A v \in CreationTimes : lo <= v
                        /\ r.oldest_created_at = Some(Rfc3339(lo))
                    /\ \E hi \in CreationTimes :
                        /\ \A v \in CreationTimes : hi >= v
                        /\ r.newest_created_at = Some(Rfc3339(hi))
                /\ DOMAIN store = {} =>
                    /\ r.total = 0 /\ r.completed = 0 /\ r.incomplete = 0
                    /\ r.tag_distribution = <<>>
                    /\ r.oldest_created_at = None /\ r.newest_created_at = None
                /\ (r.oldest_created_at = None \/ r.newest_created_at = None) =>
                    DOMAIN store = {}

\* a summary of records of both kinds, created at different times
C19_Witness ==
    \E t \in Callers :
        /\ Done(t, "stats")
        /\ Response(t).completed > 0 /\ Response(t).incomplete > 0
        /\ Response(t).oldest_created_at # Response(t).newest_created_at

\* the stored records that carry the tag g
Carrying(g) == {i \in DOMAIN store : \E k \in DOMAIN store[i].tags : store[i].tags[k] = g}

\* the tags of the list d
Listed(d) == {d[k].tag : k \in DOMAIN d}

\* the stored records fall into four groups of one record each, with these tags
HoldsExample ==
    \E f \in [1 .. 4 -> DOMAIN store] :
        /\ {f[k] : k \in 1 .. 4} = DOMAIN store
        /\ Cardinality(DOMAIN store) = 4
        /\ store[f[1]].tags = <<S("a"), S("b")>>
        /\ store[f[2]].tags = <<S("a"), S("c")>>
        /\ store[f[3]].tags = <<S("b"), S("c")>>
        /\ store[f[4]].tags = <<S("a")>>

\* C20: the tag distribution a get_stats call returned has at most 10
\* entries, each a tag with the number of records that carry it, in
\* descending order of count and ascending order of name among equal counts;
\* a tag left out has no greater a count than any listed one and, at the same
\* count, a later name; the records {a,b},{a,c},{b,c},{a} give (a,3),(b,2),(c,2)
C20_TagDistribution ==
    \A t \in Callers :
        Done(t, "stats") =>
            LET d == Response(t).tag_distribution
            IN  /\ Len(d) <= 10
                /\ \A k \in DOMAIN d :
                    /\ d[k].tag \in TagsOf(store)
                    /\ d[k].count = Cardinality(Carrying(d[k].tag))
                /\ \A j, k \in DOMAIN d :
                    j < k =>
                        \/ d[j].count > d[k].count
                        \/ d[j].count = d[k].count /\ StrLess(d[j].tag, d[k].tag)
                /\ \A g \in TagsOf(store) \ Listed(d) :
                    \A k \in DOMAIN d :
                        /\ Cardinality(Carrying(g)) <= d[k].count
                        /\ Cardinality(Carrying(g)) = d[k].count => StrLess(d[k].tag, g)
                /\ HoldsExample =>
                    d = <<[tag |-> S("a"), count |-> 3], [tag |-> S("b"), count |-> 2],
                          [tag |-> S("c"), count |-> 2]>>

\* a distribution of ten tags that leaves out a tag as frequent as its last
C20_Witness ==
    \E t \in Callers :
        /\ Done(t, "stats")
        /\ Len(Response(t).tag_distribution) = 10
        /\ \E g \in TagsOf(store) \ Listed(Response(t).tag_distribution) :
            Cardinality(Carrying(g)) = Response(t).tag_distribution[10].count
        /\ Response(t).tag_distribution[1].count > Response(t).tag_distribution[10].count

\* the summary of the records {a,b},{a,c},{b,c},{a} was returned
C20_ExampleServed == \E t \in Callers : Done(t, "stats") /\ HoldsExample

\* thread t's call of `op` returns in this step
ReturnsNow(t, op) == pc[t] # "done" /\ pc'[t] = "done" /\ req'[t].op = op

\* the identifiers the well-formed entries of a bulk payload name
Named(payload) == {payload[k] : k \in DOMAIN payload} \cap Ids

\* the map as the guard of thread t's batch found it, the map itself when
\* the batch is about to begin or the call makes none
Before(t) == IF loc[t] = None THEN store ELSE Unwrap(loc[t]).before

\* C21: a bulk delete that returns has removed exactly the stored
\* records its list names, left the others as they were, and answers 200 with
\* the number of records it removed, whatever malformed, absent or repeated
\* entries the list has, and answers 0 for the empty list
C21_BulkRemovesNamed ==
    [][\A t \in Callers :
          ReturnsNow(t, "bulk") =>
              LET named == Named(req'[t].payload)
                  before == Before(t)
              IN  /\ DOMAIN store' = DOMAIN before \ named
                  /\ \A i \in DOMAIN store' : store'[i] = before[i]
                  /\ Unwrap(res'[t]).status = 200
                  /\ Unwrap(res'[t]).deleted = Cardinality(DOMAIN before \cap named)
                  /\ Unwrap(res'[t]).deleted =
                        Cardinality(DOMAIN before) - Cardinality(DOMAIN store')
                  /\ req'[t].payload = <<>> => Unwrap(res'[t]).deleted = 0]_vars

\* a bulk delete whose list began with a malformed entry has removed a record
\* and left another
C21_Witness ==
    \E t \in Callers :
        /\ Done(t, "bulk")
        /\ Len(req[t].payload) > 1
        /\ req[t].payload[1] = 0
        /\ Response(t).deleted = 1
        /\ DOMAIN store # {}
        /\ Named(req[t].payload) \subseteq removed

\* the positions of the rows that decoded to a candidate
Candidates(rows) == {k \in DOMAIN rows : IsSome(rows[k])}

\* the positions of the candidates whose title is empty after trimming
Blank(rows) == {k \in Candidates(rows) : IsEmpty(Trim(Unwrap(rows[k]).title))}

\* the number under which an import reports the row at position k
RowNumber(ct, k) == IF Contains(ct, "json") \/ ct = "" THEN k - 1 ELSE k

\* the records under the identifiers `fresh` are the candidates at `good`
HoldsExactly(m, fresh, rows, good) ==
    \E f \in [good -> fresh] :
        /\ \A j, k \in good : j # k => f[j] # f[k]
        /\ {f[k] : k \in good} = fresh
        /\ \A k \in good :
            /\ m[f[k]].title = Unwrap(rows[k]).title
            /\ m[f[k]].description = Unwrap(rows[k]).description

ImportOps == {"import", "import_csv", "import_file"}

\* the payload of request r cannot be parsed as a whole: its bytes are not
\* UTF-8, or it is sent as a structured sequence and some element is no DTO
Undecodable(r) ==
    \/ ~r.body.utf8
    \/ /\ r.op = "import"
       /\ Contains(r.ct, "json") \/ r.ct = ""
       /\ \E k \in DOMAIN r.body.rows : r.body.rows[k] = None

\* some leading part of the payload of request r is valid on its own
ValidLead(r) ==
    IF r.op = "import_file"
    THEN r.body.parts # <<>> /\ IsSome(FileContent(SubSeq(r.body.parts, 1, 1)))
    ELSE r.body.rows # <<>> /\ IsSome(r.body.rows[1])
            /\ Validate(Unwrap(r.body.rows[1])) = "ok"

\* C23: an import whose payload is not UTF-8, or is sent as a structured
\* sequence and does not decode, returns in the step it was called in with a
\* rejection and no report, and the store is as it was
C23_UndecodableRejected ==
    [][\A t \in Callers :
          (pc'[t] = "done" /\ pc[t] # "done" /\ req'[t].op \in ImportOps
              /\ Undecodable(req'[t])) =>
              /\ pc[t] = "idle"
              /\ Unwrap(res'[t]).status \in {400, 413}
              /\ DOMAIN Unwrap(res'[t]) = {"status", "error"}
              /\ store' = store]_vars

\* a structured import whose first element is valid and whose second does
\* not decode was rejected, the store holding records of an earlier import
C23_Witness ==
    \E t \in Callers :
        /\ Done(t, "import")
        /\ Undecodable(req[t])
        /\ req[t].body.utf8
        /\ ValidLead(req[t])
        /\ Response(t).status = 400
        /\ DOMAIN store # {}

\* the content type names neither format, or both
Unresolvable(ct) ==
    /\ ct # ""
    /\ \/ ~Contains(ct, "json") /\ ~Contains(ct, "csv")
       \/ Contains(ct, "json") /\ Contains(ct, "csv")

\* the response r is the outcome of a structured-sequence import of body
AsStructured(r, body) ==
    LET parsed == ImportParse("application/json", body)
    IN  IF parsed.status = 400 THEN r = parsed
        ELSE /\ r.status = 201
             /\ r.imported = Len(parsed.valid)
             /\ r.errors = parsed.errors

\* C24: an import whose content type names neither the structured nor the
\* delimited format, or names both, returns in the step it was called in
\* with the unsupported-format error and the store as it was; an import with
\* the empty content type is served as a structured sequence
C24_FormatResolvedOnce ==
    [][\A t \in Callers :
          ReturnsNow(t, "import") =>
              /\ Unresolvable(req'[t].ct) =>
                    /\ pc[t] = "idle"
                    /\ Unwrap(res'[t]) =
                          [status |-> 400, error |-> "unsupported content-type"]
                    /\ store' = store
              /\ req'[t].ct = "" => AsStructured(Unwrap(res'[t]), req'[t].body)]_vars

\* the position of the j-th candidate of rows that has a title
NthGood(rows, j) ==
    CHOOSE k \in Candidates(rows) \ Blank(rows) :
        Cardinality({m \in Candidates(rows) \ Blank(rows) : m < k}) = j - 1

\* C25: the records an import returned are one per valid candidate, in the
\* candidates' order: the j-th carries the title and the description of the
\* j-th valid candidate, no two share an identifier, and the store holds each
C25_ImportKeepsOrder ==
    \A t \in Callers :
        (Done(t, "import") /\ Response(t).status = 201) =>
            LET rows == req[t].body.rows
                tasks == Response(t).tasks
            IN  /\ Len(tasks) = Cardinality(Candidates(rows) \ Blank(rows))
                /\ \A j \in DOMAIN tasks :
                    /\ tasks[j].title = Unwrap(rows[NthGood(rows, j)]).title
                    /\ tasks[j].description = Unwrap(rows[NthGood(rows, j)]).description
                    /\ tasks[j].id \in DOMAIN store
                    /\ store[tasks[j].id] = tasks[j]
                /\ \A j, k \in DOMAIN tasks : j # k => tasks[j].id # tasks[k].id

\* an import has returned two records whose titles differ
C25_Witness ==
    \E t \in Callers :
        /\ Done(t, "import")
        /\ Response(t).status = 201
        /\ Len(Response(t).tasks) = 2
        /\ Response(t).tasks[1].title # Response(t).tasks[2].title

\* the content type says multipart/form-data and carries a boundary
Multipart(ct) == Contains(ct, "multipart/form-data") /\ BoundaryOf(ct) # ""

\* some piece of the body is the file field with its content
HasFilePart(body) ==
    \E k \in DOMAIN body.parts :
        ~body.parts[k].blank /\ body.parts[k].named /\ body.parts[k].sep

\* the rejection the first failing check of an upload gives, "" when all pass
FirstFailing(ct, body) ==
    IF body.len > 5 * 1024 * 1024 THEN "payload too large"
    ELSE IF ~Multipart(ct) THEN "expected multipart/form-data with boundary"
    ELSE IF ~body.utf8 THEN "invalid utf8 in body"
    ELSE IF ~HasFilePart(body) THEN "file part not found"
    ELSE ""

\* C26: an upload is checked for size, then content type and boundary, then
\* UTF-8, then the file part; the first check that fails rejects it in the
\* step it was called in, the store as it was; more than 5 MiB is rejected as
\* too large whatever else it carries, and exactly 5 MiB is not
C26_UploadChecksInOrder ==
    [][\A t \in Callers :
          ReturnsNow(t, "import_file") =>
              LET failing == FirstFailing(req'[t].ct, req'[t].body)
                  r == Unwrap(res'[t])
              IN  /\ failing # "" =>
                        /\ pc[t] = "idle"
                        /\ r.status = IF failing = "payload too large" THEN 413 ELSE 400
                        /\ r.error = failing
                        /\ store' = store
                  /\ failing = "" => r.status = 201
                  /\ req'[t].body.len = 5 * 1024 * 1024 => r.status # 413]_vars

\* an upload over the ceiling, with no content type and bytes that are not
\* UTF-8, was rejected as too large, the store holding an earlier import
C26_Witness ==
    \E t \in Callers :
        /\ Done(t, "import_file")
        /\ req[t].body.len > MaxBytes
        /\ req[t].ct = ""
        /\ ~req[t].body.utf8
        /\ Response(t).status = 413
        /\ DOMAIN store # {}

\* ---------------------------------------------------------------------------
\* Atomic visibility of a batch

\* thread t's shared guard reads the map in this step: a count or a listing
Observes(t) == pc[t] \in {"count_cs", "search_cs"} /\ pc'[t] = "done"

\* the records thread u's import has inserted so far
SeenOf(u) == DOMAIN store \ DOMAIN Before(u)

\* the records thread u's bulk delete has removed so far
GoneOf(u) == DOMAIN Before(u) \ DOMAIN store

\* C27: a count or a listing that reads the map while an import or a bulk
\* delete is between its guard and its return sees none of the batch's
\* records or all of them (none removed or all of them), never a part
C27_BatchVisibleAtOnce ==
    [][\A t \in Callers : \A u \in Callers \ {t} :
          Observes(t) =>
              /\ pc[u] = "import_cs" =>
                    Cardinality(SeenOf(u)) \in
                        {0, Len(ImportParse(req[u].ct, req[u].body).valid)}
              /\ pc[u] = "bulk_cs" =>
                    GoneOf(u) \in {{}, Named(req[u].payload) \cap DOMAIN Before(u)}]_vars

\* a count waits for the guard while an import of two records has inserted
\* the first of them
C27_Witness ==
    \E t \in Callers, u \in Callers :
        /\ pc[t] = "count_wait"
        /\ pc[u] = "import_cs"
        /\ Len(ImportParse(req[u].ct, req[u].body).valid) = 2
        /\ Cardinality(SeenOf(u)) = 1

\* ---------------------------------------------------------------------------
\* Last-modified under update and set_tags

\* C28: the last-modified timestamp of a stored record never decreases: what
\* a get or a list can read of it after a step of update or set_tags is at
\* least what it could read before the step
C28_LastModifiedNeverDecreases ==
    [][\A i \in DOMAIN store \cap DOMAIN store' :
          store'[i].updated_at >= store[i].updated_at]_vars

\* ---------------------------------------------------------------------------
\* set_tags beside update_task

\* threads t and u have both answered 200, t to an update and u to a set_tags
\* of the same stored record
BothAnswered(t, u) ==
    /\ Done(t, "update") /\ Response(t).status = 200
    /\ Done(u, "set_tags") /\ Response(u).status = 200
    /\ req[t].id = req[u].id
    /\ req[t].id \in DOMAIN store

\* C29: once an update and a set_tags of one record have both returned 200,
\* the stored record has the title, description and completion flag the
\* update returned and the tags the set_tags was given, however their
\* repository calls interleaved
C29_SetTagsKeepsUpdate ==
    \A t \in Threads, u \in Threads :
        BothAnswered(t, u) =>
            LET r == store[req[t].id]
            IN  /\ r.title = Response(t).task.title
                /\ r.description = Response(t).task.description
                /\ r.completed = Response(t).task.completed
                /\ r.tags = req[u].tags

\* ---------------------------------------------------------------------------
\* The page window over the whole range of page numbers

\* S * (P - 1) >= n as numbers, for the clamped page P and page size S of
\* request q and a number n below LimbBase
StartsAtOrAfter(q, n) ==
    \/ GeSmall(SaturatingSubOne(AskedPage(q)), n)
    \/ AskedPerPage(q) * SaturatingSubOne(AskedPage(q))[1] >= n

\* C30: for every page number of the word range and every page size in
\* 1 .. 100 the start offset of a list is computed without overflow, and a
\* list whose start offset S * (P - 1) is at or past the number of matching
\* records answers 200 with no items and that number as the total
C30_PageArithmeticExact ==
    \A t \in Threads : Done(t, "list") =>
        LET matching == Cardinality({i \in DOMAIN store : Passes(store[i], req[t])})
        IN  /\ ~MulAdd(SaturatingSubOne(AskedPage(req[t])), AskedPerPage(req[t]), 0).overflow
            /\ StartsAtOrAfter(req[t], matching) =>
                  /\ Response(t).status = 200
                  /\ Response(t).items = <<>>
                  /\ Response(t).total = matching

====
